---- MODULE Spec2Model ----
(***************************************************************************)
(* Document ingestion job lifecycle and status reconciliation of the      *)
(* ingest service: the upload / retry / status endpoints                   *)
(* (ingest-service/app/api/v1/endpoints/ingest.py) and the Celery task     *)
(* process_document_haystack_task (app/tasks/process_document.py), over    *)
(* the Metadata Store (PostgreSQL), the Object Store (MinIO), the Vector   *)
(* Store (Milvus) and the job queue.                                       *)
(***************************************************************************)
EXTENDS Integers, Sequences, FiniteSets, TLC

\* ------------------------------------------------------------------ bounds
MaxDocs == 2
MaxJobs == 2
MaxSlots == 2
MaxLive == 2
MaxFairJobs == 1
PageSize == 2
MaxOutages == 2

\* --------------------------------------------------------------- constants
\* retry_kwargs={'max_retries': 2, 'countdown': 60}
max_retries == 2
countdown == 60
\* str(e)[:500]: the cut the task applies to the text of an exception
TextCut == 500
\* _get_milvus_chunk_count_sync returns -1 when the count could not be taken
CountError == 0 - 1
\* SQL NULL of the nullable integer column chunk_count
NullCount == 0 - 2

DocIds == 1..MaxDocs
JobIds == 1..MaxJobs
Slots == 1..MaxSlots

Tenants == {"T", "U"}
Names == {"report.pdf"}

\* The uploaded files the model draws from: a content type class and the
\* number of chunks the bytes split into (0 bytes = an empty file).
\*   "text"  : a type with a Haystack converter
\*   "image" : a type listed in EXTERNAL_OCR_REQUIRED_CONTENT_TYPES
\*   "other" : a type accepted at upload for which no converter exists
Files == { [ctype |-> "text", bytes |-> 1],
           [ctype |-> "text", bytes |-> 0],
           [ctype |-> "image", bytes |-> 1],
           [ctype |-> "other", bytes |-> 1] }

\* DocumentStatus (app.models.domain)
PENDING == "pending"
UPLOADED == "uploaded"
PROCESSING == "processing"
PROCESSED == "processed"
ERROR == "error"
ABSENT == "absent"

\* error_message texts, kept as the sequence of the parts that were
\* concatenated; the empty sequence is NULL
NoMsg == << >>
MsgMinioUpload == "MinIO upload failed"
MsgUnexpectedUpload == "Unexpected upload error"
MsgQueueFailed == "Failed to queue processing task"
MsgNotFound == "File not found in storage"
MsgEmpty == "Downloaded file is empty"
MsgNoRetry == "Task Error (No Retry)"
MsgRetryPending == "Task Error (Retry Pending)"
MsgFileMissing == "File missing from storage."
MsgCountError == " Failed to verify processed data (Milvus count error)."
MsgDataMissing == " Processed data missing (Milvus count is 0)."
MsgMinioCheck == " MinIO check error"

VARIABLES
  docs,        \* Metadata Store: the documents table
  objects,     \* Object Store: the documents whose object exists
  chunks,      \* Vector Store: live number of chunks per document
  jobs,        \* job queue and the worker's position in each attempt
  calls,       \* the API requests in flight, one per serving slot
  nextDoc,     \* number of document ids generated so far
  event,       \* history: what the last step did
  scope,       \* how many documents the callers upload in this run, how
               \* many requests they keep in flight, and whether event
               \* also records the requests answered without a write
  service      \* the API process (app/main.py): its global SERVICE_READY
               \* (ready), whether the database answers ("up"), refuses
               \* ("down") or hangs ("slow") (db), and how many times the
               \* database has failed so far (outages)

vars == << docs, objects, chunks, jobs, calls, nextDoc, event, scope, service >>

\* ------------------------------------------------------------ the records
\* the API process started with the database answering
ServiceUp == [ready |-> TRUE, db |-> "up", outages |-> 0]

NoFile == [ctype |-> "-", bytes |-> 0]

NoDoc == [tenant |-> "-", name |-> "-", file |-> NoFile,
          status |-> ABSENT, chunk_count |-> NullCount, err |-> NoMsg]

NoResult == [writer |-> NullCount, splitter |-> NullCount]

FreeJob == [doc |-> 0, state |-> "free", pc |-> "-", retries |-> 0,
            delay |-> 0, result |-> NoResult, overtime |-> FALSE]

NoEvidence == [exists |-> "-", count |-> CountError]

NoDecision == [needs_update |-> FALSE, status |-> "-",
               chunk_count |-> NullCount, err |-> NoMsg]

NoAnswer == [status |-> "-", chunk_count |-> NullCount]

IdleCall == [op |-> "idle", pc |-> "-", tenant |-> "-", name |-> "-",
             file |-> NoFile, doc |-> 0, ev |-> NoEvidence, dec |-> NoDecision,
             was |-> NoAnswer, todo |-> << >>, log |-> {}]

\* event: set by the steps that end a job attempt, lose its worker or
\* end a read: the action (act), its document and job, the
\* error the attempt ended with (res), whether the status write the step
\* issued was applied (written: "yes" or "no"; when the write of an early
\* return failed, "fallback" if the generic clause's write was applied and
\* "fallback-no" if it failed too; "none" for a read that had nothing to
\* write), the tenant and file name of an upload or retry request (req),
\* the file and metadata form of an upload request, the record a read
\* fetched (was), the
\* live evidence a read used (ev), the pipeline result of a finished
\* attempt (result) and the keyword arguments of the task message the step
\* handed to the queue (args; for a message whose metadata is followed, its
\* original_metadata, with the doc_meta built from it in result; for a step
\* of a list read of a page, the documents whose write the read has logged
\* as failed; for the last step of a Delete, the stores whose delete failed), and the status and chunk_count of the response of a read
\* (answer)
NoRequest == [tenant |-> "-", name |-> "-", file |-> NoFile, meta |-> "-"]

Event(a, d, j, r, w, e, p) ==
  [act |-> a, doc |-> d, job |-> j, res |-> r, written |-> w,
   req |-> NoRequest, was |-> NoDoc, ev |-> e, result |-> p, args |-> {},
   answer |-> NoAnswer]

\* the event of a read of document d that fetched the record rec and
\* collected the evidence e; the record is kept where the run follows the
\* reads
ReadEvent(a, d, w, rec, e) ==
  [Event(a, d, 0, "-", w, e, NoResult) EXCEPT
     !.was = IF scope.trace THEN rec ELSE NoDoc]

\* the event evt of a read, with the status st and the chunk_count cc of
\* its response; kept where the run follows the reads
Answered(evt, st, cc) ==
  IF scope.trace
  THEN [evt EXCEPT !.answer = [status |-> st, chunk_count |-> cc]]
  ELSE evt

\* the event of the check that opens an upload or a retry: the answer r to
\* the request of tenant t for the file name n, and the document d the
\* answer is about; kept where the run follows the requests
RequestEvent(a, d, r, t, n) ==
  IF scope.trace
  THEN [Event(a, d, 0, r, "none", NoEvidence, NoResult) EXCEPT
          !.req = [NoRequest EXCEPT !.tenant = t, !.name = n]]
  ELSE Event("-", 0, 0, "-", "-", NoEvidence, NoResult)

NoEvent == Event("-", 0, 0, "-", "-", NoEvidence, NoResult)

\* the event of a later step of an upload or a retry: the answer r, whether
\* the status write of the step was applied (w), the job j it queued (0 if
\* none) and the arguments args of that job's message; kept where the run
\* follows the requests
EndEvent(a, d, j, r, w, args) ==
  IF scope.trace
  THEN [Event(a, d, j, r, w, NoEvidence, NoResult) EXCEPT !.args = args]
  ELSE Event("-", 0, 0, "-", "-", NoEvidence, NoResult)

Present(d) == docs[d].status # ABSENT

\* the status and chunk_count of the record a read has fetched (doc_data),
\* kept with the request where the run follows the reads
Kept(rec) ==
  IF scope.trace THEN [status |-> rec.status, chunk_count |-> rec.chunk_count]
  ELSE NoAnswer

\* --------------------------------------------------------- Metadata Store
\* postgres_client.update_document_status(document_id, status, chunk_count,
\* error_message): an unconditional UPDATE by id. A chunk_count that is not
\* passed (None) leaves the column alone; error_message is stored as passed
\* (None clears it).
update_document_status(tbl, d, st, cc, em) ==
  IF tbl[d].status = ABSENT THEN tbl
  ELSE [tbl EXCEPT ![d].status = st,
                   ![d].chunk_count = IF cc = NullCount THEN @ ELSE cc,
                   ![d].err = em]

\* find_document_by_name_and_company: the documents of the company with that
\* file name, the non-error ones when there is one
Matches(t, n) == { d \in DocIds : Present(d) /\ docs[d].tenant = t /\ docs[d].name = n }

find_document_by_name_and_company(t, n) ==
  IF \E d \in Matches(t, n) : docs[d].status # ERROR
  THEN { d \in Matches(t, n) : docs[d].status # ERROR }
  ELSE Matches(t, n)

\* get_document_by_id(conn, doc_id, company_id)
get_document_by_id(d, t) == Present(d) /\ docs[d].tenant = t

FreeJobs == { j \in JobIds : jobs[j].state = "free" }

FirstFreeJob == CHOOSE x \in FreeJobs : \A y \in FreeJobs : x <= y

\* process_document_haystack_task.delay(**task_payload)
NewJob(d) == [FreeJob EXCEPT !.doc = d, !.state = "queued"]

InitScope(sc) ==
  /\ docs = [d \in DocIds |-> NoDoc]
  /\ objects = {}
  /\ chunks = [d \in DocIds |-> 0]
  /\ jobs = [j \in JobIds |-> FreeJob]
  /\ calls = [s \in Slots |-> IdleCall]
  /\ nextDoc = 0
  /\ event = NoEvent
  /\ service = ServiceUp
  /\ scope = sc

\* the callers upload a single document and keep one request in flight
Init == InitScope([docs |-> 1, slots |-> 1, jobs |-> MaxJobs,
                   tenants |-> {"T"}, files |-> Files, trace |-> FALSE])

\* the queue accepts a new message
CanQueue == FreeJobs # {} /\ FirstFreeJob <= scope.jobs

\* a serving slot is free for a new request
Idle(s) == s <= scope.slots /\ calls[s].op = "idle"

\* ------------------------------------------------------------------ Upload
\* settings.SUPPORTED_CONTENT_TYPES: the content types an upload accepts
SUPPORTED_CONTENT_TYPES == { f.ctype : f \in Files }

\* a file of a content type that is not in SUPPORTED_CONTENT_TYPES
UnlistedFile == [ctype |-> "unlisted", bytes |-> 1]

\* the metadata_json form field of an upload: not sent, a JSON object, JSON
\* that is not an object, or text that is not JSON
MetadataForms == {"none", "object", "array", "garbage"}

\* the files and metadata forms the callers send: the requests that are
\* refused change nothing, and are drawn where the run follows the requests
UploadFiles == scope.files \cup (IF scope.trace THEN {UnlistedFile} ELSE {})
UploadForms == IF scope.trace THEN MetadataForms ELSE {"none"}

\* the event of the first step of an upload of the file f with the
\* metadata m
UploadEvent(d, r, t, n, f, m) ==
  IF scope.trace
  THEN [Event("UploadCheck", d, 0, r, "none", NoEvidence, NoResult) EXCEPT
          !.req = [tenant |-> t, name |-> n, file |-> f, meta |-> m]]
  ELSE Event("-", 0, 0, "-", "-", NoEvidence, NoResult)

\* UploadCheck rejecting the upload when the only document of that name is
\* in ERROR
UploadCheckRejectsError(s) ==
  /\ Idle(s)
  /\ nextDoc + Cardinality({ x \in Slots : calls[x].pc = "create" }) < scope.docs
  /\ \E t \in scope.tenants, n \in Names, f \in UploadFiles, m \in UploadForms :
       LET existing == find_document_by_name_and_company(t, n) IN
       IF f.ctype \notin SUPPORTED_CONTENT_TYPES
       THEN /\ event' = UploadEvent(0, "UnsupportedMediaType", t, n, f, m)
            /\ UNCHANGED calls
       ELSE IF m \in {"array", "garbage"}
       THEN /\ event' = UploadEvent(0, "InvalidArgument", t, n, f, m)
            /\ UNCHANGED calls
       ELSE IF existing # {}
       THEN /\ \E d \in existing :
                 /\ event' = UploadEvent(d, "AlreadyExists", t, n, f, m)
            /\ UNCHANGED calls
       ELSE /\ calls' = [calls EXCEPT ![s] =
                          [IdleCall EXCEPT !.op = "upload", !.pc = "create",
                                           !.tenant = t, !.name = n, !.file = f]]
            /\ event' = UploadEvent(0, "ok", t, n, f, m)
  /\ UNCHANGED << docs, objects, chunks, jobs, nextDoc, scope, service >>

\* upload_document, steps 1 to 3: the content type, the metadata and the
\* duplicate check
UploadCheck(s) ==
  /\ Idle(s)
  /\ nextDoc + Cardinality({ x \in Slots : calls[x].pc = "create" }) < scope.docs
  /\ \E t \in scope.tenants, n \in Names, f \in UploadFiles, m \in UploadForms :
       LET existing == find_document_by_name_and_company(t, n) IN
       IF f.ctype \notin SUPPORTED_CONTENT_TYPES
       THEN /\ event' = UploadEvent(0, "UnsupportedMediaType", t, n, f, m)
            /\ UNCHANGED calls
       ELSE IF m \in {"array", "garbage"}
       THEN /\ event' = UploadEvent(0, "InvalidArgument", t, n, f, m)
            /\ UNCHANGED calls
       ELSE IF \E d \in existing : docs[d].status # ERROR
       THEN /\ \E d \in existing :
                 /\ docs[d].status # ERROR
                 /\ event' = UploadEvent(d, "AlreadyExists", t, n, f, m)
            /\ UNCHANGED calls
       ELSE /\ calls' = [calls EXCEPT ![s] =
                          [IdleCall EXCEPT !.op = "upload", !.pc = "create",
                                           !.tenant = t, !.name = n, !.file = f]]
            /\ event' = UploadEvent(0, "ok", t, n, f, m)
  /\ UNCHANGED << docs, objects, chunks, jobs, nextDoc, scope, service >>

\* upload_document, step 4: create the record in PENDING; when the insert
\* fails the call ends with 503 and nothing is created
UploadCreate(s) ==
  /\ calls[s].op = "upload" /\ calls[s].pc = "create"
  /\ nextDoc < MaxDocs
  /\ LET d == nextDoc + 1 IN
       \/ /\ docs' = [docs EXCEPT ![d] = [tenant |-> calls[s].tenant,
                                          name |-> calls[s].name,
                                          file |-> calls[s].file,
                                          status |-> PENDING,
                                          chunk_count |-> NullCount,
                                          err |-> NoMsg]]
          /\ calls' = [calls EXCEPT ![s] = [IdleCall EXCEPT !.op = "upload",
                                                            !.pc = "store", !.doc = d]]
          /\ event' = EndEvent("UploadCreate", d, 0, "ok", "yes", {})
          /\ nextDoc' = nextDoc + 1
       \/ /\ calls' = [calls EXCEPT ![s] = IdleCall]
          /\ event' = EndEvent("UploadCreate", 0, 0, "Unavailable", "no", {})
          /\ UNCHANGED << docs, nextDoc >>
  /\ UNCHANGED << objects, chunks, jobs, scope, service >>

\* the keyword arguments upload_document passes to the task's delay
upload_task_payload ==
  { "document_id", "company_id", "filename", "content_type", "user_id" }

\* UploadFail storing the message without the ERROR status
UploadFailKeepsStatus(s, tbl, d, msg, code) ==
  /\ \E ok \in BOOLEAN :
       /\ docs' = IF ok THEN update_document_status(tbl, d, tbl[d].status, NullCount, << msg >>)
                  ELSE tbl
       /\ event' = EndEvent("UploadStore", d, 0, code, IF ok THEN "yes" ELSE "no", {})
  /\ calls' = [calls EXCEPT ![s] = IdleCall]

\* the except branches of upload_document: try to mark the document ERROR
\* (the failure of that write is logged only) and raise the HTTP error
UploadFail(s, tbl, d, msg, code) ==
  /\ \E ok \in BOOLEAN :
       /\ docs' = IF ok THEN update_document_status(tbl, d, ERROR, NullCount, << msg >>)
                  ELSE tbl
       /\ event' = EndEvent("UploadStore", d, 0, code, IF ok THEN "yes" ELSE "no", {})
  /\ calls' = [calls EXCEPT ![s] = IdleCall]

\* UploadStore with the message queued before the enqueue is reported as
\* failed
UploadStoreQueuesThenFails(s) ==
  /\ calls[s].op = "upload" /\ calls[s].pc = "store"
  /\ LET d == calls[s].doc
         marked == update_document_status(docs, d, UPLOADED, NullCount, NoMsg) IN
     \/ /\ UploadFail(s, docs, d, MsgMinioUpload, "Unavailable")
        /\ UNCHANGED << objects, jobs >>
     \/ /\ objects' = objects \cup {d}
        /\ UploadFail(s, docs, d, MsgUnexpectedUpload, "Internal")
        /\ UNCHANGED jobs
     \/ /\ objects' = objects \cup {d}
        /\ CanQueue
        /\ jobs' = [jobs EXCEPT ![FirstFreeJob] = NewJob(d)]
        /\ docs' = marked
        /\ calls' = [calls EXCEPT ![s] = IdleCall]
        /\ event' = EndEvent("UploadStore", d, FirstFreeJob, "ok", "yes",
                             upload_task_payload)
     \/ /\ objects' = objects \cup {d}
        /\ UploadFail(s, marked, d, MsgQueueFailed, "Internal")
        /\ CanQueue
        /\ jobs' = [jobs EXCEPT ![FirstFreeJob] = NewJob(d)]
  /\ UNCHANGED << chunks, nextDoc, scope, service >>

\* UploadStore queueing the task before it puts the bytes and writes
\* UPLOADED
UploadStoreQueuesFirst(s) ==
  /\ calls[s].op = "upload" /\ calls[s].pc = "store"
  /\ LET d == calls[s].doc
         marked == update_document_status(docs, d, UPLOADED, NullCount, NoMsg) IN
     \/ /\ CanQueue
        /\ jobs' = [jobs EXCEPT ![FirstFreeJob] = NewJob(d)]
        /\ UploadFail(s, docs, d, MsgMinioUpload, "Unavailable")
        /\ UNCHANGED objects
     \/ /\ objects' = objects \cup {d}
        /\ CanQueue
        /\ jobs' = [jobs EXCEPT ![FirstFreeJob] = NewJob(d)]
        /\ docs' = marked
        /\ calls' = [calls EXCEPT ![s] = IdleCall]
        /\ event' = EndEvent("UploadStore", d, FirstFreeJob, "ok", "yes",
                             upload_task_payload)
     \/ /\ objects' = objects \cup {d}
        /\ UploadFail(s, marked, d, MsgQueueFailed, "Internal")
        /\ UNCHANGED jobs
  /\ UNCHANGED << chunks, nextDoc, scope, service >>

\* upload_document, steps 5 to 7: put the bytes (MinioError -> ERROR, 503),
\* status -> UPLOADED (failure -> ERROR, 500), queue the task (failure ->
\* ERROR, 500)
UploadStore(s) ==
  /\ calls[s].op = "upload" /\ calls[s].pc = "store"
  /\ LET d == calls[s].doc
         marked == update_document_status(docs, d, UPLOADED, NullCount, NoMsg) IN
     \/ /\ UploadFail(s, docs, d, MsgMinioUpload, "Unavailable")
        /\ UNCHANGED << objects, jobs >>
     \/ /\ objects' = objects \cup {d}
        /\ UploadFail(s, docs, d, MsgUnexpectedUpload, "Internal")
        /\ UNCHANGED jobs
     \/ /\ objects' = objects \cup {d}
        /\ CanQueue
        /\ jobs' = [jobs EXCEPT ![FirstFreeJob] = NewJob(d)]
        /\ docs' = marked
        /\ calls' = [calls EXCEPT ![s] = IdleCall]
        /\ event' = EndEvent("UploadStore", d, FirstFreeJob, "ok", "yes",
                             upload_task_payload)
     \/ /\ objects' = objects \cup {d}
        /\ UploadFail(s, marked, d, MsgQueueFailed, "Internal")
        /\ UNCHANGED jobs
  /\ UNCHANGED << chunks, nextDoc, scope, service >>

\* ------------------------------------------------------------------- Retry
\* the parameters of process_document_haystack_task after self, none of
\* which has a default
task_parameters ==
  { "document_id_str", "company_id_str", "minio_object_name", "file_name",
    "content_type", "original_metadata" }

\* the keyword arguments retry_ingestion passes to the task's delay
retry_task_payload ==
  { "document_id", "company_id", "filename", "content_type", "user_id" }

\* RetryCheck refusing only the documents no job has picked up yet
RetryCheckAnyStatus(s) ==
  /\ Idle(s)
  /\ \E d \in 1..nextDoc, t \in scope.tenants :
       IF ~ get_document_by_id(d, t)
       THEN /\ event' = RequestEvent("RetryCheck", d, "NotFound", t, "-")
            /\ UNCHANGED calls
       ELSE IF docs[d].status \in {PENDING, UPLOADED}
       THEN /\ event' = RequestEvent("RetryCheck", d, "Conflict", t, docs[d].name)
            /\ UNCHANGED calls
       ELSE /\ calls' = [calls EXCEPT ![s] =
                          [IdleCall EXCEPT !.op = "retry", !.pc = "write",
                                           !.tenant = t, !.doc = d]]
            /\ event' = RequestEvent("RetryCheck", d, "ok", t, docs[d].name)
  /\ UNCHANGED << docs, objects, chunks, jobs, nextDoc, scope, service >>

\* retry_ingestion, step 1: fetch the document and verify its state
RetryCheck(s) ==
  /\ Idle(s)
  /\ \E d \in 1..nextDoc, t \in scope.tenants :
       IF ~ get_document_by_id(d, t)
       THEN /\ event' = RequestEvent("RetryCheck", d, "NotFound", t, "-")
            /\ UNCHANGED calls
       ELSE IF docs[d].status # ERROR
       THEN /\ event' = RequestEvent("RetryCheck", d, "Conflict", t, docs[d].name)
            /\ UNCHANGED calls
       ELSE /\ calls' = [calls EXCEPT ![s] =
                          [IdleCall EXCEPT !.op = "retry", !.pc = "write",
                                           !.tenant = t, !.doc = d]]
            /\ event' = RequestEvent("RetryCheck", d, "ok", t, docs[d].name)
  /\ UNCHANGED << docs, objects, chunks, jobs, nextDoc, scope, service >>

\* retry_ingestion, steps 2 and 3: status -> PROCESSING with the error
\* message cleared (failure -> 503), then queue the task (failure -> 500,
\* the status stays PROCESSING)
RetryWrite(s) ==
  /\ calls[s].op = "retry" /\ calls[s].pc = "write"
  /\ LET d == calls[s].doc IN
     \/ /\ event' = EndEvent("RetryWrite", d, 0, "Unavailable", "no", {})
        /\ UNCHANGED << docs, jobs >>
     \/ /\ docs' = update_document_status(docs, d, PROCESSING, NullCount, NoMsg)
        /\ \/ /\ CanQueue
              /\ jobs' = [jobs EXCEPT ![FirstFreeJob] = NewJob(d)]
              /\ event' = EndEvent("RetryWrite", d, FirstFreeJob, "ok", "yes",
                                   retry_task_payload)
           \/ /\ event' = EndEvent("RetryWrite", d, 0, "Internal", "yes", {})
              /\ UNCHANGED jobs
  /\ calls' = [calls EXCEPT ![s] = IdleCall]
  /\ UNCHANGED << objects, chunks, nextDoc, scope, service >>

\* ------------------------------------------------------ the message texts
\* the text of an exception, n characters long
Text(n) == [i \in 1..n |-> "."]

\* the texts the exceptions carry: none, one as long as the cut, one longer
Texts == { Text(0), Text(TextCut), Text(TextCut + 1) }

\* f"Task Error (...): {type(e).__name__}: {str(e)[:500]}": the message of
\* a failed attempt, the fixed part counted as one character
TaskErrorText(msg, text) ==
  << msg >> \o SubSeq(text, 1, IF Len(text) < TextCut THEN Len(text) ELSE TextCut)

\* f"MinIO upload failed: {me}", f"Unexpected upload error: {e}",
\* f"Failed to queue processing task: {e}": the message of a failed upload
UploadErrorText(msg, text) == << msg >> \o text

\* (final_error_message or "") + f" Error checking processed data: {e}.",
\* (doc_final_error_msg or "") + f" MinIO check error: {e}.": the message
\* of a repair whose check raised
RepairErrorText(old, msg, text) == old \o << msg >> \o text

\* the writes of error_message, each with the text of its exception
MsgUploadFails ==
  /\ docs[1].status \in {PENDING, UPLOADED}
  /\ \E msg \in {MsgMinioUpload, MsgUnexpectedUpload, MsgQueueFailed}, text \in Texts :
       docs' = update_document_status(docs, 1, ERROR, NullCount, UploadErrorText(msg, text))
  /\ UNCHANGED << objects, chunks, jobs, calls, nextDoc, event, scope, service >>

MsgTaskStarts ==
  /\ docs[1].status \in {UPLOADED, PROCESSING, ERROR}
  /\ docs' = update_document_status(docs, 1, PROCESSING, NullCount, NoMsg)
  /\ UNCHANGED << objects, chunks, jobs, calls, nextDoc, event, scope, service >>

MsgTaskFails ==
  /\ docs[1].status = PROCESSING
  /\ \E msg \in {MsgNoRetry, MsgRetryPending}, text \in Texts :
       docs' = update_document_status(docs, 1, ERROR, NullCount, TaskErrorText(msg, text))
  /\ UNCHANGED << objects, chunks, jobs, calls, nextDoc, event, scope, service >>

MsgRepair ==
  /\ docs[1].status # ERROR
  /\ \E text \in Texts :
       docs' = update_document_status(docs, 1, ERROR, NullCount,
                                      RepairErrorText(docs[1].err, MsgMinioCheck, text))
  /\ UNCHANGED << objects, chunks, jobs, calls, nextDoc, event, scope, service >>

\* ------------------------------------------------------------ health check
\* the module global SERVICE_READY of app/main.py
SERVICE_READY == service.ready

\* startup_event: the pool is opened and SELECT 1 is awaited for 10 s at
\* most; the service is marked ready when it answered
startup_event(db) == db = "up"

\* read_root, first step: a service that is not ready answers 503 at once;
\* otherwise the pool is asked for a connection
HealthCheck(s) ==
  /\ Idle(s)
  /\ IF ~ SERVICE_READY
     THEN /\ event' = Event("HealthCheck", 0, 0, "Unavailable", "-", NoEvidence, NoResult)
          /\ UNCHANGED calls
     ELSE /\ calls' = [calls EXCEPT ![s] = [IdleCall EXCEPT !.op = "health", !.pc = "ping"]]
          /\ event' = NoEvent
  /\ UNCHANGED << docs, objects, chunks, jobs, nextDoc, scope, service >>

\* read_root, second step: SELECT 1 awaited for 5 s at most; an answer
\* sets SERVICE_READY if it was not set and the request answers ok; a
\* timeout or an error clears SERVICE_READY and the request answers 503
HealthPing(s) ==
  /\ calls[s].op = "health" /\ calls[s].pc = "ping"
  /\ service' = [service EXCEPT !.ready = (service.db = "up")]
  /\ event' = Event("HealthPing", 0, 0,
                    CASE service.db = "up" -> "ok"
                      [] service.db = "slow" -> "Timeout"
                      [] service.db = "down" -> "Unavailable",
                    "-", NoEvidence, NoResult)
  /\ calls' = [calls EXCEPT ![s] = IdleCall]
  /\ UNCHANGED << docs, objects, chunks, jobs, nextDoc, scope >>

\* the database stops answering: it refuses connections or hangs
DbFails ==
  /\ service.db = "up" /\ service.outages < MaxOutages
  /\ \E f \in {"down", "slow"} :
       service' = [service EXCEPT !.db = f, !.outages = @ + 1]
  /\ UNCHANGED << docs, objects, chunks, jobs, calls, nextDoc, event, scope >>

\* the database answers again
DbRecovers ==
  /\ service.db # "up"
  /\ service' = [service EXCEPT !.db = "up"]
  /\ UNCHANGED << docs, objects, chunks, jobs, calls, nextDoc, event, scope >>

\* ------------------------------------------------- the metadata of a chunk
\* settings.MILVUS_METADATA_FIELDS: the metadata keys the Vector Store keeps
MILVUS_METADATA_FIELDS == {"company_id", "file_name", "author"}

\* the keys a caller may send with an upload: one the allow-list has, one it
\* has not, and two named like the task's own tags, one of them allowed
CallerKeys == {"author", "secret", "company_id", "document_id"}

\* the values a caller may send: a text, a number, null
CallerValues ==
  { [type |-> "str", text |-> "smith"], [type |-> "int", text |-> "7"],
    [type |-> "none", text |-> ""] }

\* original_metadata: the JSON objects over CallerKeys
Metadatas == UNION { [K -> CallerValues] : K \in SUBSET CallerKeys }

\* str(value) if value is not None else None
StrOrNone(v) == IF v.type = "none" THEN v ELSE [type |-> "str", text |-> v.text]

\* the four tags the task sets itself: str(company_id), str(document_id),
\* file_name or "unknown", content_type or "unknown"
TaskTags(d) ==
  [k \in {"company_id", "document_id", "file_name", "file_type"} |->
     [type |-> "str",
      text |-> CASE k = "company_id" -> docs[d].tenant
                 [] k = "document_id" -> "d"
                 [] k = "file_name" -> IF docs[d].name = "" THEN "unknown" ELSE docs[d].name
                 [] k = "file_type" -> IF docs[d].file.ctype = "" THEN "unknown"
                                       ELSE docs[d].file.ctype]]

\* doc_meta with the key k set to the value v
WithKey(m, k, v) == [x \in DOMAIN m \cup {k} |-> IF x = k THEN v ELSE m[x]]

\* DocMeta letting an allowed caller key replace a tag of the task
RECURSIVE DocMetaCallerWins(_, _, _)
DocMetaCallerWins(m, om, keys) ==
  IF keys = {} THEN m
  ELSE LET k == CHOOSE x \in keys : TRUE
       IN  DocMetaCallerWins(IF k \in MILVUS_METADATA_FIELDS
                             THEN WithKey(m, k, StrOrNone(om[k])) ELSE m,
                             om, keys \ {k})

\* the loop over original_metadata.items(): a key is added when it is
\* allowed and not yet in doc_meta
RECURSIVE DocMeta(_, _, _)
DocMeta(m, om, keys) ==
  IF keys = {} THEN m
  ELSE LET k == CHOOSE x \in keys : TRUE
       IN  DocMeta(IF k \in MILVUS_METADATA_FIELDS /\ k \notin DOMAIN m
                   THEN WithKey(m, k, StrOrNone(om[k])) ELSE m,
                   om, keys \ {k})

\* the task is handed a message whose original_metadata is om
MetaDeliver ==
  /\ event.act # "MetaDeliver"
  /\ \E om \in Metadatas :
       event' = [NoEvent EXCEPT !.act = "MetaDeliver", !.doc = 1, !.args = om]
  /\ UNCHANGED << docs, objects, chunks, jobs, calls, nextDoc, scope, service >>

\* step 2 of async_process: doc_meta is built for the ByteStream
MetaBuild ==
  /\ event.act = "MetaDeliver"
  /\ event' = [event EXCEPT !.act = "MetaBuild",
                            !.result = DocMeta(TaskTags(event.doc), event.args,
                                               DOMAIN event.args)]
  /\ UNCHANGED << docs, objects, chunks, jobs, calls, nextDoc, scope, service >>

\* ------------------------------------------------------------------ Delete
\* db_client.delete_document(conn, doc_id, company_id): removes the record
\* of that id and company
delete_document(tbl, d, t) ==
  IF tbl[d].status # ABSENT /\ tbl[d].tenant = t
  THEN [tbl EXCEPT ![d] = NoDoc]
  ELSE tbl

\* _delete_milvus_sync: removes the chunks whose meta.document_id and
\* meta.company_id are those of the request
delete_milvus(live, d) == [live EXCEPT ![d] = 0]

\* delete_document_endpoint, step 1: the record is fetched by id and
\* company (none -> 404)
DeleteCheck(s) ==
  /\ Idle(s)
  /\ \E d \in 1..nextDoc, t \in scope.tenants :
       IF ~ get_document_by_id(d, t)
       THEN /\ event' = RequestEvent("DeleteCheck", d, "NotFound", t, "-")
            /\ UNCHANGED calls
       ELSE /\ calls' = [calls EXCEPT ![s] =
                          [IdleCall EXCEPT !.op = "delete", !.pc = "vector",
                                           !.doc = d, !.tenant = t]]
            /\ event' = RequestEvent("DeleteCheck", d, "ok", t, docs[d].name)
  /\ UNCHANGED << docs, objects, chunks, jobs, nextDoc, scope, service >>

\* DeleteVector giving up the request when the Vector Store delete fails
DeleteVectorAborts(s) ==
  /\ calls[s].op = "delete" /\ calls[s].pc = "vector"
  /\ LET d == calls[s].doc IN
     \/ /\ chunks' = delete_milvus(chunks, d)
        /\ event' = EndEvent("DeleteVector", d, 0, "ok", "yes", {})
        /\ calls' = [calls EXCEPT ![s].pc = "object"]
     \/ /\ event' = EndEvent("DeleteVector", d, 0, "Internal", "no", {})
        /\ calls' = [calls EXCEPT ![s] = IdleCall]
        /\ UNCHANGED chunks
  /\ UNCHANGED << docs, objects, jobs, nextDoc, scope, service >>

\* delete_document_endpoint, step 2: the Vector Store delete; a failure is
\* noted in errors (the log of the request) and the request goes on
DeleteVector(s) ==
  /\ calls[s].op = "delete" /\ calls[s].pc = "vector"
  /\ LET d == calls[s].doc IN
     \/ /\ chunks' = delete_milvus(chunks, d)
        /\ event' = EndEvent("DeleteVector", d, 0, "ok", "yes", {})
        /\ calls' = [calls EXCEPT ![s].pc = "object"]
     \/ /\ event' = EndEvent("DeleteVector", d, 0, "failed", "no", {})
        /\ calls' = [calls EXCEPT ![s].pc = "object", ![s].log = @ \cup {"vector"}]
        /\ UNCHANGED chunks
  /\ UNCHANGED << docs, objects, jobs, nextDoc, scope, service >>

\* delete_document_endpoint, step 3: the Object Store delete of the object
\* path of the record; a failure is noted in errors and the request goes on
DeleteObject(s) ==
  /\ calls[s].op = "delete" /\ calls[s].pc = "object"
  /\ LET d == calls[s].doc IN
     \/ /\ objects' = objects \ {d}
        /\ event' = EndEvent("DeleteObject", d, 0, "ok", "yes", {})
        /\ calls' = [calls EXCEPT ![s].pc = "record"]
     \/ /\ event' = EndEvent("DeleteObject", d, 0, "failed", "no", {})
        /\ calls' = [calls EXCEPT ![s].pc = "record", ![s].log = @ \cup {"object"}]
        /\ UNCHANGED objects
  /\ UNCHANGED << docs, chunks, jobs, nextDoc, scope, service >>

\* DeleteRecord losing the record although the Metadata Store delete failed
DeleteRecordDropsOnFailure(s) ==
  /\ calls[s].op = "delete" /\ calls[s].pc = "record"
  /\ LET d == calls[s].doc IN
     /\ docs' = delete_document(docs, d, calls[s].tenant)
     /\ \/ event' = EndEvent("DeleteRecord", d, 0, "ok", "yes", calls[s].log)
        \/ event' = EndEvent("DeleteRecord", d, 0, "Internal", "no", calls[s].log)
  /\ calls' = [calls EXCEPT ![s] = IdleCall]
  /\ UNCHANGED << objects, chunks, jobs, nextDoc, scope, service >>

\* delete_document_endpoint, step 4: the Metadata Store delete; a failure
\* ends the request with 500, otherwise it ends with 204 and the errors
\* noted are logged as a warning
DeleteRecord(s) ==
  /\ calls[s].op = "delete" /\ calls[s].pc = "record"
  /\ LET d == calls[s].doc IN
     \/ /\ docs' = delete_document(docs, d, calls[s].tenant)
        /\ event' = EndEvent("DeleteRecord", d, 0, "ok", "yes", calls[s].log)
     \/ /\ event' = EndEvent("DeleteRecord", d, 0, "Internal", "no", calls[s].log)
        /\ UNCHANGED docs
  /\ calls' = [calls EXCEPT ![s] = IdleCall]
  /\ UNCHANGED << objects, chunks, jobs, nextDoc, scope, service >>

\* ------------------------------------------------------------- Status read
\* the live evidence a status read can collect for a document:
\* check_file_exists_async and _get_milvus_chunk_count_sync (-1 on failure)
Evidence(d) ==
  { [exists |-> e, count |-> c] :
      e \in {IF d \in objects THEN "yes" ELSE "no"},
      c \in {chunks[d], CountError} }

\* ReconcileSingle with the drift rule storing the old chunk_count instead
\* of the live one
ReconcileSingleKeepsCount(doc, ev) ==
  LET s0 == doc.status
      missing == ev.exists = "no" /\ s0 \notin {ERROR, PENDING}
      s1 == IF missing THEN ERROR ELSE s0
      e1 == IF missing THEN << MsgFileMissing >> ELSE doc.err
      n == ev.count
  IN  IF n = CountError
      THEN IF s1 # ERROR
           THEN [needs_update |-> TRUE, status |-> ERROR,
                 chunk_count |-> doc.chunk_count, err |-> Append(e1, MsgCountError)]
           ELSE [needs_update |-> missing, status |-> s1,
                 chunk_count |-> doc.chunk_count, err |-> e1]
      ELSE IF n > 0 /\ s1 = UPLOADED
      THEN [needs_update |-> TRUE, status |-> PROCESSED, chunk_count |-> n, err |-> NoMsg]
      ELSE IF n = 0 /\ s1 = PROCESSED
      THEN [needs_update |-> TRUE, status |-> ERROR, chunk_count |-> 0,
            err |-> Append(e1, MsgDataMissing)]
      ELSE IF s1 = PROCESSED /\ (doc.chunk_count = NullCount \/ doc.chunk_count # n)
      THEN [needs_update |-> TRUE, status |-> s1, chunk_count |-> doc.chunk_count,
            err |-> e1]
      ELSE [needs_update |-> missing, status |-> s1,
            chunk_count |-> doc.chunk_count, err |-> e1]

\* ReconcileSingle without the rule that promotes an UPLOADED document with
\* live chunks
ReconcileSingleNoPromote(doc, ev) ==
  LET s0 == doc.status
      missing == ev.exists = "no" /\ s0 \notin {ERROR, PENDING}
      s1 == IF missing THEN ERROR ELSE s0
      e1 == IF missing THEN << MsgFileMissing >> ELSE doc.err
      n == ev.count
  IN  IF n = CountError
      THEN IF s1 # ERROR
           THEN [needs_update |-> TRUE, status |-> ERROR,
                 chunk_count |-> doc.chunk_count, err |-> Append(e1, MsgCountError)]
           ELSE [needs_update |-> missing, status |-> s1,
                 chunk_count |-> doc.chunk_count, err |-> e1]
      ELSE IF n = 0 /\ s1 = PROCESSED
      THEN [needs_update |-> TRUE, status |-> ERROR, chunk_count |-> 0,
            err |-> Append(e1, MsgDataMissing)]
      ELSE IF s1 = PROCESSED /\ (doc.chunk_count = NullCount \/ doc.chunk_count # n)
      THEN [needs_update |-> TRUE, status |-> s1, chunk_count |-> n, err |-> e1]
      ELSE [needs_update |-> missing, status |-> s1,
            chunk_count |-> doc.chunk_count, err |-> e1]

\* ReconcileSingle with a live count of 0 handled as a drift of the count of
\* a PROCESSED document
ReconcileSingleZeroIsDrift(doc, ev) ==
  LET s0 == doc.status
      missing == ev.exists = "no" /\ s0 \notin {ERROR, PENDING}
      s1 == IF missing THEN ERROR ELSE s0
      e1 == IF missing THEN << MsgFileMissing >> ELSE doc.err
      n == ev.count
  IN  IF n = CountError
      THEN IF s1 # ERROR
           THEN [needs_update |-> TRUE, status |-> ERROR,
                 chunk_count |-> doc.chunk_count, err |-> Append(e1, MsgCountError)]
           ELSE [needs_update |-> missing, status |-> s1,
                 chunk_count |-> doc.chunk_count, err |-> e1]
      ELSE IF n > 0 /\ s1 = UPLOADED
      THEN [needs_update |-> TRUE, status |-> PROCESSED, chunk_count |-> n, err |-> NoMsg]
      ELSE IF s1 = PROCESSED /\ (doc.chunk_count = NullCount \/ doc.chunk_count # n)
      THEN [needs_update |-> TRUE, status |-> s1, chunk_count |-> n, err |-> e1]
      ELSE [needs_update |-> missing, status |-> s1,
            chunk_count |-> doc.chunk_count, err |-> e1]

\* ReconcileSingle with a missing object flagged for every stored status but
\* ERROR
ReconcileSingleFlagsPending(doc, ev) ==
  LET s0 == doc.status
      missing == ev.exists = "no" /\ s0 # ERROR
      s1 == IF missing THEN ERROR ELSE s0
      e1 == IF missing THEN << MsgFileMissing >> ELSE doc.err
      n == ev.count
  IN  IF n = CountError
      THEN IF s1 # ERROR
           THEN [needs_update |-> TRUE, status |-> ERROR,
                 chunk_count |-> doc.chunk_count, err |-> Append(e1, MsgCountError)]
           ELSE [needs_update |-> missing, status |-> s1,
                 chunk_count |-> doc.chunk_count, err |-> e1]
      ELSE IF n > 0 /\ s1 = UPLOADED
      THEN [needs_update |-> TRUE, status |-> PROCESSED, chunk_count |-> n, err |-> NoMsg]
      ELSE IF n = 0 /\ s1 = PROCESSED
      THEN [needs_update |-> TRUE, status |-> ERROR, chunk_count |-> 0,
            err |-> Append(e1, MsgDataMissing)]
      ELSE IF s1 = PROCESSED /\ (doc.chunk_count = NullCount \/ doc.chunk_count # n)
      THEN [needs_update |-> TRUE, status |-> s1, chunk_count |-> n, err |-> e1]
      ELSE [needs_update |-> missing, status |-> s1,
            chunk_count |-> doc.chunk_count, err |-> e1]

\* ReconcileSingle with a failed count check read as a live count of 0
ReconcileSingleFailureAsZero(doc, ev) ==
  LET s0 == doc.status
      missing == ev.exists = "no" /\ s0 \notin {ERROR, PENDING}
      s1 == IF missing THEN ERROR ELSE s0
      e1 == IF missing THEN << MsgFileMissing >> ELSE doc.err
      n == IF ev.count = CountError THEN 0 ELSE ev.count
  IN  IF n = CountError
      THEN IF s1 # ERROR
           THEN [needs_update |-> TRUE, status |-> ERROR,
                 chunk_count |-> doc.chunk_count, err |-> Append(e1, MsgCountError)]
           ELSE [needs_update |-> missing, status |-> s1,
                 chunk_count |-> doc.chunk_count, err |-> e1]
      ELSE IF n > 0 /\ s1 = UPLOADED
      THEN [needs_update |-> TRUE, status |-> PROCESSED, chunk_count |-> n, err |-> NoMsg]
      ELSE IF n = 0 /\ s1 = PROCESSED
      THEN [needs_update |-> TRUE, status |-> ERROR, chunk_count |-> 0,
            err |-> Append(e1, MsgDataMissing)]
      ELSE IF s1 = PROCESSED /\ (doc.chunk_count = NullCount \/ doc.chunk_count # n)
      THEN [needs_update |-> TRUE, status |-> s1, chunk_count |-> n, err |-> e1]
      ELSE [needs_update |-> missing, status |-> s1,
            chunk_count |-> doc.chunk_count, err |-> e1]

\* ReconcileSingle with the count rules looking at the fetched status instead
\* of the status the object rule left
ReconcileSingleCountFirst(doc, ev) ==
  LET s0 == doc.status
      missing == ev.exists = "no" /\ s0 \notin {ERROR, PENDING}
      s1 == IF missing THEN ERROR ELSE s0
      e1 == IF missing THEN << MsgFileMissing >> ELSE doc.err
      n == ev.count
  IN  IF n = CountError
      THEN IF s1 # ERROR
           THEN [needs_update |-> TRUE, status |-> ERROR,
                 chunk_count |-> doc.chunk_count, err |-> Append(e1, MsgCountError)]
           ELSE [needs_update |-> missing, status |-> s1,
                 chunk_count |-> doc.chunk_count, err |-> e1]
      ELSE IF n > 0 /\ s0 = UPLOADED
      THEN [needs_update |-> TRUE, status |-> PROCESSED, chunk_count |-> n, err |-> NoMsg]
      ELSE IF n = 0 /\ s0 = PROCESSED
      THEN [needs_update |-> TRUE, status |-> ERROR, chunk_count |-> 0,
            err |-> Append(e1, MsgDataMissing)]
      ELSE IF s1 = PROCESSED /\ (doc.chunk_count = NullCount \/ doc.chunk_count # n)
      THEN [needs_update |-> TRUE, status |-> s1, chunk_count |-> n, err |-> e1]
      ELSE [needs_update |-> missing, status |-> s1,
            chunk_count |-> doc.chunk_count, err |-> e1]

\* ReconcileSingle asking for a write when no rule fires
ReconcileSingleAlwaysWrites(doc, ev) ==
  LET s0 == doc.status
      missing == ev.exists = "no" /\ s0 \notin {ERROR, PENDING}
      s1 == IF missing THEN ERROR ELSE s0
      e1 == IF missing THEN << MsgFileMissing >> ELSE doc.err
      n == ev.count
  IN  IF n = CountError
      THEN IF s1 # ERROR
           THEN [needs_update |-> TRUE, status |-> ERROR,
                 chunk_count |-> doc.chunk_count, err |-> Append(e1, MsgCountError)]
           ELSE [needs_update |-> missing, status |-> s1,
                 chunk_count |-> doc.chunk_count, err |-> e1]
      ELSE IF n > 0 /\ s1 = UPLOADED
      THEN [needs_update |-> TRUE, status |-> PROCESSED, chunk_count |-> n, err |-> NoMsg]
      ELSE IF n = 0 /\ s1 = PROCESSED
      THEN [needs_update |-> TRUE, status |-> ERROR, chunk_count |-> 0,
            err |-> Append(e1, MsgDataMissing)]
      ELSE IF s1 = PROCESSED /\ (doc.chunk_count = NullCount \/ doc.chunk_count # n)
      THEN [needs_update |-> TRUE, status |-> s1, chunk_count |-> n, err |-> e1]
      ELSE [needs_update |-> TRUE, status |-> s1,
            chunk_count |-> doc.chunk_count, err |-> e1]

\* get_document_status, steps 2 and 3: the rule table of the single read
ReconcileSingle(doc, ev) ==
  LET s0 == doc.status
      missing == ev.exists = "no" /\ s0 \notin {ERROR, PENDING}
      s1 == IF missing THEN ERROR ELSE s0
      e1 == IF missing THEN << MsgFileMissing >> ELSE doc.err
      n == ev.count
  IN  IF n = CountError
      THEN IF s1 # ERROR
           THEN [needs_update |-> TRUE, status |-> ERROR,
                 chunk_count |-> doc.chunk_count, err |-> Append(e1, MsgCountError)]
           ELSE [needs_update |-> missing, status |-> s1,
                 chunk_count |-> doc.chunk_count, err |-> e1]
      ELSE IF n > 0 /\ s1 = UPLOADED
      THEN [needs_update |-> TRUE, status |-> PROCESSED, chunk_count |-> n, err |-> NoMsg]
      ELSE IF n = 0 /\ s1 = PROCESSED
      THEN [needs_update |-> TRUE, status |-> ERROR, chunk_count |-> 0,
            err |-> Append(e1, MsgDataMissing)]
      ELSE IF s1 = PROCESSED /\ (doc.chunk_count = NullCount \/ doc.chunk_count # n)
      THEN [needs_update |-> TRUE, status |-> s1, chunk_count |-> n, err |-> e1]
      ELSE [needs_update |-> missing, status |-> s1,
            chunk_count |-> doc.chunk_count, err |-> e1]

\* what get_document_status decides on the evidence ev: its existence check
\* is awaited outside any try, so a check that raises ends the request
\* before a decision is made
SingleOutcome(doc, ev) ==
  IF ev.exists = "error" THEN NoDecision ELSE ReconcileSingle(doc, ev)

\* get_document_status, steps 1 to 3: fetch the record, collect the live
\* evidence and decide; the read returns here when nothing is to be updated
StatusRead(s) ==
  /\ Idle(s)
  /\ \E d \in 1..nextDoc, t \in scope.tenants :
       IF ~ get_document_by_id(d, t)
       THEN /\ event' = RequestEvent("StatusRead", d, "NotFound", t, "-")
            /\ UNCHANGED calls
       ELSE \E ev \in Evidence(d) :
              LET dec == ReconcileSingle(docs[d], ev) IN
              IF dec.needs_update
              THEN /\ calls' = [calls EXCEPT ![s] =
                                 [IdleCall EXCEPT !.op = "status", !.pc = "write",
                                                  !.tenant = t, !.doc = d, !.ev = ev, !.dec = dec,
                                                  !.was = Kept(docs[d])]]
                   /\ event' = NoEvent
              ELSE /\ event' = IF scope.trace
                                THEN Answered(ReadEvent("StatusRead", d, "none", docs[d], ev),
                                              docs[d].status, docs[d].chunk_count)
                                ELSE NoEvent
                   /\ UNCHANGED calls
  /\ UNCHANGED << docs, objects, chunks, jobs, nextDoc, scope, service >>

\* get_document_status, steps 4 and 5: write the correction and answer;
\* the response takes the corrected status and, when there is one, the
\* corrected chunk_count, only after the write went through; when the
\* write fails the read answers with the record as it was fetched
StatusWrite(s) ==
  /\ calls[s].op = "status" /\ calls[s].pc = "write"
  /\ LET d == calls[s].doc
         dec == calls[s].dec
         was == calls[s].was IN
     \/ /\ docs' = update_document_status(docs, d, dec.status, dec.chunk_count, dec.err)
        /\ event' = Answered(ReadEvent("StatusWrite", d, "yes", docs[d], calls[s].ev),
                             dec.status,
                             IF dec.chunk_count # NullCount THEN dec.chunk_count
                             ELSE was.chunk_count)
     \/ /\ event' = IF scope.trace
                     THEN Answered(ReadEvent("StatusWrite", d, "no", docs[d], calls[s].ev),
                                   was.status, was.chunk_count)
                     ELSE NoEvent
        /\ UNCHANGED docs
  /\ calls' = [calls EXCEPT ![s] = IdleCall]
  /\ UNCHANGED << objects, chunks, jobs, nextDoc, scope, service >>

\* ------------------------------------------- Status read, earlier endpoint
\* postgres_client.get_document_status(document_id): the record of that id,
\* whatever its company
get_document_status(d) == Present(d)

\* get_ingestion_status: the record is fetched by id alone (none -> 404),
\* then its company is compared with the caller's (403); the stored record
\* is answered as it is
IngestionStatus(s) ==
  /\ Idle(s)
  /\ \E d \in 1..nextDoc, t \in scope.tenants :
       event' = RequestEvent("IngestionStatus", d,
                             IF ~ get_document_status(d) THEN "NotFound"
                             ELSE IF docs[d].tenant # t THEN "Forbidden"
                             ELSE "ok",
                             t, "-")
  /\ UNCHANGED << docs, objects, chunks, jobs, calls, nextDoc, scope, service >>

\* --------------------------------------------------------------- List read
\* the live evidence a list read can collect for a document: there the
\* existence check may raise, which the read handles ("error")
ListEvidence(d) ==
  { [exists |-> e, count |-> c] :
      e \in {IF d \in objects THEN "yes" ELSE "no", "error"},
      c \in {chunks[d], CountError} }

\* list_document_statuses.check_single_document: the rule table of the
\* list read
ReconcileList(doc, ev) ==
  LET s0 == doc.status
      missing == ev.exists = "no" /\ s0 \notin {ERROR, PENDING}
      failed == ev.exists = "error" /\ s0 # ERROR
      s1 == IF missing \/ failed THEN ERROR ELSE s0
      e1 == IF missing THEN << MsgFileMissing >>
            ELSE IF failed THEN Append(doc.err, MsgMinioCheck)
            ELSE doc.err
      flagged == missing \/ failed
      n == ev.count
  IN  IF n = CountError
      THEN IF s1 # ERROR
           THEN [needs_update |-> TRUE, status |-> ERROR,
                 chunk_count |-> doc.chunk_count, err |-> Append(e1, MsgCountError)]
           ELSE [needs_update |-> flagged, status |-> s1,
                 chunk_count |-> doc.chunk_count, err |-> e1]
      ELSE IF n > 0 /\ s1 = UPLOADED
      THEN [needs_update |-> TRUE, status |-> PROCESSED, chunk_count |-> n, err |-> NoMsg]
      ELSE IF n = 0 /\ s1 = PROCESSED
      THEN [needs_update |-> TRUE, status |-> ERROR, chunk_count |-> 0,
            err |-> Append(e1, MsgDataMissing)]
      ELSE IF s1 = PROCESSED /\ (doc.chunk_count = NullCount \/ doc.chunk_count # n)
      THEN [needs_update |-> TRUE, status |-> s1, chunk_count |-> n, err |-> e1]
      ELSE [needs_update |-> flagged, status |-> s1,
            chunk_count |-> doc.chunk_count, err |-> e1]

\* list_document_statuses with a page of one document (limit = 1): fetch
\* the page, collect the live evidence and decide; the read returns here
\* when nothing is to be updated
ListRead(s) ==
  /\ Idle(s)
  /\ \E d \in 1..nextDoc, t \in scope.tenants :
       IF ~ get_document_by_id(d, t)
       THEN /\ event' = NoEvent
            /\ UNCHANGED calls
       ELSE \E ev \in ListEvidence(d) :
              LET dec == ReconcileList(docs[d], ev) IN
              IF dec.needs_update
              THEN /\ calls' = [calls EXCEPT ![s] =
                                 [IdleCall EXCEPT !.op = "list", !.pc = "write",
                                                  !.tenant = t, !.doc = d, !.ev = ev, !.dec = dec,
                                                  !.was = Kept(docs[d])]]
                   /\ event' = NoEvent
              ELSE /\ event' = IF scope.trace
                                THEN Answered(ReadEvent("ListRead", d, "none", docs[d], ev),
                                              dec.status, dec.chunk_count)
                                ELSE NoEvent
                   /\ UNCHANGED calls
  /\ UNCHANGED << docs, objects, chunks, jobs, nextDoc, scope, service >>

\* list_document_statuses: write the corrections; a failed write is logged
\* and the read answers with the corrected values all the same
ListWrite(s) ==
  /\ calls[s].op = "list" /\ calls[s].pc = "write"
  /\ LET d == calls[s].doc
         dec == calls[s].dec IN
     \/ /\ docs' = update_document_status(docs, d, dec.status, dec.chunk_count, dec.err)
        /\ event' = Answered(ReadEvent("ListWrite", d, "yes", docs[d], calls[s].ev),
                             dec.status, dec.chunk_count)
     \/ /\ event' = IF scope.trace
                     THEN Answered(ReadEvent("ListWrite", d, "no", docs[d], calls[s].ev),
                                   dec.status, dec.chunk_count)
                     ELSE NoEvent
        /\ UNCHANGED docs
  /\ calls' = [calls EXCEPT ![s] = IdleCall]
  /\ UNCHANGED << objects, chunks, jobs, nextDoc, scope, service >>

\* ------------------------------------------------- List read of a page
\* the documents of a set in the order the page lists them
RECURSIVE InOrder(_)
InOrder(S) ==
  IF S = {} THEN << >>
  ELSE LET d == CHOOSE x \in S : \A y \in S : x <= y
       IN  << d >> \o InOrder(S \ {d})

\* docs_to_update_in_db: the documents of the page whose check asks for a
\* write, with the values to write
RECURSIVE ToUpdate(_, _)
ToUpdate(page, evs) ==
  IF page = << >> THEN << >>
  ELSE LET d == Head(page)
           dec == ReconcileList(docs[d], evs[d])
       IN  (IF dec.needs_update THEN << [doc |-> d, dec |-> dec] >> ELSE << >>)
             \o ToUpdate(Tail(page), evs)

\* list_document_statuses with a page of all the documents of the company:
\* fetch the page, check every document, collect the corrections; an empty
\* page, a page without corrections and a page whose connection for the
\* writes cannot be had are answered here
PageRead(s) ==
  /\ Idle(s)
  /\ \E t \in scope.tenants :
       LET page == { d \in 1..nextDoc : get_document_by_id(d, t) } IN
       \E evs \in [page -> UNION { ListEvidence(d) : d \in page }] :
          /\ \A d \in page : evs[d] \in ListEvidence(d)
          /\ LET todo == ToUpdate(InOrder(page), evs) IN
             \/ /\ todo # << >>
                /\ calls' = [calls EXCEPT ![s] =
                               [IdleCall EXCEPT !.op = "page", !.pc = "write",
                                                !.tenant = t, !.todo = todo]]
                /\ event' = NoEvent
             \/ /\ event' = EndEvent("PageRead", 0, 0, "ok",
                                     IF todo = << >> THEN "none" ELSE "no", {})
                /\ UNCHANGED calls
  /\ UNCHANGED << docs, objects, chunks, jobs, nextDoc, scope, service >>

\* PageWrite giving up the remaining writes when one write fails
PageWriteStopsAtFailure(s) ==
  /\ calls[s].op = "page" /\ calls[s].pc = "write"
  /\ LET todo == calls[s].todo
         d == Head(todo).doc
         dec == Head(todo).dec
         last == Len(todo) = 1
     IN  \/ /\ docs' = update_document_status(docs, d, dec.status, dec.chunk_count, dec.err)
            /\ event' = EndEvent("PageWrite", d, 0, IF last THEN "ok" ELSE "-", "yes",
                                 calls[s].log)
            /\ calls' = [calls EXCEPT ![s] =
                           IF last THEN IdleCall ELSE [@ EXCEPT !.todo = Tail(todo)]]
         \/ /\ event' = EndEvent("PageWrite", d, 0, "ok", "no", calls[s].log \cup {d})
            /\ calls' = [calls EXCEPT ![s] = IdleCall]
            /\ UNCHANGED docs
  /\ UNCHANGED << objects, chunks, jobs, nextDoc, scope, service >>

\* list_document_statuses, the writes: one update per correction, each in
\* its own try; a failure is logged and the loop goes on; after the last
\* one the response is returned
PageWrite(s) ==
  /\ calls[s].op = "page" /\ calls[s].pc = "write"
  /\ LET todo == calls[s].todo
         d == Head(todo).doc
         dec == Head(todo).dec
         last == Len(todo) = 1
     IN  \/ /\ docs' = update_document_status(docs, d, dec.status, dec.chunk_count, dec.err)
            /\ event' = EndEvent("PageWrite", d, 0, IF last THEN "ok" ELSE "-", "yes",
                                 calls[s].log)
            /\ calls' = [calls EXCEPT ![s] =
                           IF last THEN IdleCall ELSE [@ EXCEPT !.todo = Tail(todo)]]
         \/ /\ event' = EndEvent("PageWrite", d, 0, IF last THEN "ok" ELSE "-", "no",
                                 calls[s].log \cup {d})
            /\ calls' = [calls EXCEPT ![s] =
                           IF last THEN IdleCall
                           ELSE [@ EXCEPT !.todo = Tail(todo), !.log = @ \cup {d}]]
            /\ UNCHANGED docs
  /\ UNCHANGED << objects, chunks, jobs, nextDoc, scope, service >>

\* -------------------------------------------------------------- the worker
\* the errors an attempt can end with
NonRetryableKinds == {"FileNotFound", "Empty", "Unsupported", "OCR", "TypeError"}
RetryableKinds == {"IOError", "DBError"}

\* Handler with every error taken by the generic clause
HandlerGenericOnly(kind) == "generic"

\* which except clause of async_process takes the error: the two early
\* returns, the logical/data clause, or the generic clause
Handler(kind) ==
  IF kind = "FileNotFound" \/ kind = "Empty" THEN "return"
  ELSE IF kind \in {"Unsupported", "OCR", "TypeError"} THEN "logical"
  ELSE "generic"

\* the error_message each handler stores
ErrorMessage(kind) ==
  IF kind = "FileNotFound" THEN MsgNotFound
  ELSE IF kind = "Empty" THEN MsgEmpty
  ELSE IF Handler(kind) = "logical" THEN MsgNoRetry
  ELSE MsgRetryPending

\* whether async_process re-raises the error after its handler ran
AsyncProcessRaises(kind) == Handler(kind) = "generic"

\* whether the task function lets an exception of async_process reach
\* Celery: the top-level except clause ends in pass
TaskRaises(raised) == FALSE

\* the delay before retry number n: retry_kwargs gives one countdown
Backoff(n) == countdown

\* Celery, when the task function returns or raises: autoretry_for with
\* max_retries re-dispatches a task that raised, otherwise the message is
\* acknowledged (acks_late)
TaskEnd(job, raised) ==
  IF raised /\ job.retries < max_retries
  THEN [FreeJob EXCEPT !.doc = job.doc, !.state = "queued",
                       !.retries = job.retries + 1,
                       !.delay = Backoff(job.retries + 1)]
  ELSE [FreeJob EXCEPT !.doc = job.doc, !.state = "done", !.retries = job.retries]

\* WorkerLost with the message acknowledged when the task was received
WorkerLostAcked(job) ==
  [FreeJob EXCEPT !.doc = job.doc, !.state = "done", !.retries = job.retries]

\* Celery, when the worker running the task is lost: acks_late with
\* reject_on_worker_lost re-queues the message
WorkerLost(job) ==
  [FreeJob EXCEPT !.doc = job.doc, !.state = "queued", !.retries = job.retries]

\* HandlerWrite with the handler only logging the error
HandlerWriteNothing(tbl, d, kind) == tbl

\* the status write of an error handler
HandlerWrite(tbl, d, kind) ==
  update_document_status(tbl, d, ERROR, NullCount, << ErrorMessage(kind) >>)

\* an attempt ends with the error kind0: its handler tries to store ERROR.
\* A failure of the write of an early return is itself an error that the
\* generic clause takes; a failure of the write of the logical or of the
\* generic clause is logged only.
FailAttempt(j, kind0) ==
  LET d == jobs[j].doc IN
  \E ok1 \in BOOLEAN, ok2 \in BOOLEAN :
    LET fallback == Handler(kind0) = "return" /\ ~ok1
        kind == IF fallback THEN "DBError" ELSE kind0
        ok == IF fallback THEN ok2 ELSE ok1
    IN
    /\ (~fallback => ok2)
    /\ docs' = IF ok THEN HandlerWrite(docs, d, kind) ELSE docs
    /\ jobs' = [jobs EXCEPT ![j] = TaskEnd(jobs[j], TaskRaises(AsyncProcessRaises(kind)))]
    /\ event' = Event("Fail", d, j, kind0,
                      IF fallback THEN (IF ok THEN "fallback" ELSE "fallback-no")
                      ELSE (IF ok THEN "yes" ELSE "no"),
                      NoEvidence, NoResult)

\* Deliver writing PROCESSING without touching the stored error message
DeliverKeepsMessage(j) ==
  /\ jobs[j].state = "queued"
  /\ \/ /\ docs' = update_document_status(docs, jobs[j].doc, PROCESSING, NullCount,
                                           docs[jobs[j].doc].err)
        /\ jobs' = [jobs EXCEPT ![j].state = "running", ![j].pc = "process"]
        /\ event' = NoEvent
     \/ FailAttempt(j, "DBError")
  /\ UNCHANGED << objects, chunks, calls, nextDoc, scope, service >>

\* the task starts: status -> PROCESSING
Deliver(j) ==
  /\ jobs[j].state = "queued"
  /\ \/ /\ docs' = update_document_status(docs, jobs[j].doc, PROCESSING, NullCount, NoMsg)
        /\ jobs' = [jobs EXCEPT ![j].state = "running", ![j].pc = "process"]
        /\ event' = NoEvent
     \/ FailAttempt(j, "DBError")
  /\ UNCHANGED << objects, chunks, calls, nextDoc, scope, service >>

\* DocumentWriter(document_store) writes the chunks of a run
WriteChunks(live, n) == live + n

\* what pipeline.run returns: the writer's count, or without it the
\* splitter's documents, or neither
PipelineResults(n) ==
  { [writer |-> n, splitter |-> NullCount],
    [writer |-> NullCount, splitter |-> n],
    [writer |-> NullCount, splitter |-> NullCount] }

\* the error the attempt ends with before the pipeline runs, "-" if none
PreRunError(d) ==
  IF d \notin objects THEN "FileNotFound"
  ELSE IF docs[d].file.bytes = 0 THEN "Empty"
  ELSE IF docs[d].file.ctype = "image" THEN "OCR"
  ELSE IF docs[d].file.ctype # "text" THEN "Unsupported"
  ELSE "-"

\* download, select the converter, build and run the pipeline
Process(j) ==
  /\ jobs[j].state = "running" /\ jobs[j].pc = "process"
  /\ LET d == jobs[j].doc IN
     \/ /\ d \in objects
        /\ FailAttempt(j, "IOError")
        /\ UNCHANGED chunks
     \/ /\ PreRunError(d) # "-"
        /\ FailAttempt(j, PreRunError(d))
        /\ UNCHANGED chunks
     \/ /\ PreRunError(d) = "-"
        /\ FailAttempt(j, "TypeError")
        /\ UNCHANGED chunks
     \/ /\ PreRunError(d) = "-"
        /\ WriteChunks(chunks[d], docs[d].file.bytes) <= MaxLive
        /\ chunks' = [chunks EXCEPT ![d] = WriteChunks(@, docs[d].file.bytes)]
        /\ \E r \in PipelineResults(docs[d].file.bytes) :
             jobs' = [jobs EXCEPT ![j].pc = "finish", ![j].result = r]
        /\ event' = NoEvent
        /\ UNCHANGED docs
  /\ UNCHANGED << objects, calls, nextDoc, scope, service >>

\* ProcessedDocsCount with the count left at its initial value
ProcessedDocsCountZero(r) == 0

\* step 5 of async_process: the chunk count taken from the pipeline result
ProcessedDocsCount(r) ==
  IF r.writer # NullCount THEN r.writer
  ELSE IF r.splitter # NullCount THEN r.splitter
  ELSE 0

\* step 6 of async_process: the final update
FinalUpdate(tbl, d, n) == update_document_status(tbl, d, PROCESSED, n, NoMsg)

Finish(j) ==
  /\ jobs[j].state = "running" /\ jobs[j].pc = "finish"
  /\ \/ /\ docs' = FinalUpdate(docs, jobs[j].doc, ProcessedDocsCount(jobs[j].result))
        /\ jobs' = [jobs EXCEPT ![j] = TaskEnd(jobs[j], FALSE)]
        /\ event' = Event("Finish", jobs[j].doc, j, "-", "yes", NoEvidence,
                          jobs[j].result)
     \/ FailAttempt(j, "DBError")
  /\ UNCHANGED << objects, chunks, calls, nextDoc, scope, service >>

\* the pipeline run takes longer than the wall-clock limit of an attempt:
\* pipeline.run is awaited without a timeout and the task has no time limit
PipelineOverrun(j) ==
  /\ jobs[j].state = "running" /\ jobs[j].pc = "process"
  /\ ~ jobs[j].overtime
  /\ jobs' = [jobs EXCEPT ![j].overtime = TRUE]
  /\ event' = NoEvent
  /\ UNCHANGED << docs, objects, chunks, calls, nextDoc, scope, service >>

\* the worker process dies during an attempt
Crash(j) ==
  /\ jobs[j].state = "running"
  /\ jobs' = [jobs EXCEPT ![j] = WorkerLost(jobs[j])]
  /\ event' = Event("Crash", jobs[j].doc, j, "-", "-", NoEvidence, NoResult)
  /\ UNCHANGED << docs, objects, chunks, calls, nextDoc, scope, service >>

\* ------------------------------------------------------ the external stores
\* an object disappears from the Object Store
ObjectLost(d) ==
  /\ d \in objects
  /\ objects' = objects \ {d}
  /\ event' = NoEvent
  /\ UNCHANGED << docs, chunks, jobs, calls, nextDoc, scope, service >>

\* the chunks of a document disappear from the Vector Store
ChunksLost(d) ==
  /\ chunks[d] > 0
  /\ chunks' = [chunks EXCEPT ![d] = 0]
  /\ event' = NoEvent
  /\ UNCHANGED << docs, objects, jobs, calls, nextDoc, scope, service >>

Next ==
  \/ \E s \in Slots : UploadCheck(s)
  \/ \E s \in Slots : UploadCreate(s)
  \/ \E s \in Slots : UploadStore(s)
  \/ \E s \in Slots : RetryCheck(s)
  \/ \E s \in Slots : RetryWrite(s)
  \/ \E s \in Slots : StatusRead(s)
  \/ \E s \in Slots : StatusWrite(s)
  \/ \E s \in Slots : ListRead(s)
  \/ \E s \in Slots : ListWrite(s)
  \/ \E j \in JobIds : Deliver(j)
  \/ \E j \in JobIds : Process(j)
  \/ \E j \in JobIds : Finish(j)
  \/ \E j \in JobIds : PipelineOverrun(j)
  \/ \E j \in JobIds : Crash(j)
  \/ \E d \in DocIds : ObjectLost(d)
  \/ \E d \in DocIds : ChunksLost(d)

Spec == Init /\ [][Next]_vars

\* a single document whose queue holds MaxFairJobs messages, where the
\* broker hands every queued message to a worker
InitFair == InitScope([docs |-> 1, slots |-> 1, jobs |-> MaxFairJobs,
                       tenants |-> {"T"}, files |-> Files, trace |-> FALSE])

FairSpec == InitFair /\ [][Next]_vars /\ \A j \in JobIds : WF_vars(Deliver(j))

\* the same system where, besides, a worker that holds a message goes on
\* with its attempt
WorkSpec ==
  /\ InitFair /\ [][Next]_vars
  /\ \A j \in JobIds :
        WF_vars(Deliver(j)) /\ WF_vars(Process(j)) /\ WF_vars(Finish(j))

\* two documents of one tenant with the same file name, one request in
\* flight and a queue of one message
InitPair == InitScope([docs |-> MaxDocs, slots |-> 1, jobs |-> 1,
                       tenants |-> {"T"},
                       files |-> { f \in Files : f.ctype = "text" /\ f.bytes > 0 },
                       trace |-> FALSE])

PairSpec == InitPair /\ [][Next]_vars

\* the status reads alone, from every stored (status, chunk_count,
\* error_message) and every state of the two stores
StoredDocs ==
  { [tenant |-> "T", name |-> "report.pdf", file |-> [ctype |-> "text", bytes |-> 1],
     status |-> st, chunk_count |-> cc, err |-> em] :
      st \in {PENDING, UPLOADED, PROCESSING, PROCESSED, ERROR},
      cc \in {NullCount} \cup 0..MaxLive,
      em \in {NoMsg, << MsgNoRetry >>} }

InitRead ==
  /\ \E rec \in StoredDocs : docs = [d \in DocIds |-> IF d = 1 THEN rec ELSE NoDoc]
  /\ objects \in {{}, {1}}
  /\ \E n \in 0..MaxLive : chunks = [d \in DocIds |-> IF d = 1 THEN n ELSE 0]
  /\ jobs = [j \in JobIds |-> FreeJob]
  /\ calls = [s \in Slots |-> IdleCall]
  /\ nextDoc = 1
  /\ event = NoEvent
  /\ service = ServiceUp
  /\ scope = [docs |-> 1, slots |-> 1, jobs |-> 0, tenants |-> {"T"}, files |-> {},
              trace |-> TRUE]

ReadNext ==
  \/ \E s \in Slots : StatusRead(s)
  \/ \E s \in Slots : StatusWrite(s)
  \/ \E s \in Slots : ListRead(s)
  \/ \E s \in Slots : ListWrite(s)

ReadSpec == InitRead /\ [][ReadNext]_vars

\* the uploads and retries alone, with the workers stopped: tenant T has
\* one document, in any stored state, and tenants T and U send requests
\* for its file name
InitApi ==
  /\ \E rec \in StoredDocs : docs = [d \in DocIds |-> IF d = 1 THEN rec ELSE NoDoc]
  /\ objects = {1}
  /\ chunks = [d \in DocIds |-> 0]
  /\ jobs = [j \in JobIds |-> FreeJob]
  /\ calls = [s \in Slots |-> IdleCall]
  /\ nextDoc = 1
  /\ event = NoEvent
  /\ service = ServiceUp
  /\ scope = [docs |-> MaxDocs, slots |-> 1, jobs |-> MaxJobs,
              tenants |-> Tenants,
              files |-> { f \in Files : f.ctype = "text" },
              trace |-> TRUE]

ApiNext ==
  \/ \E s \in Slots : UploadCheck(s)
  \/ \E s \in Slots : UploadCreate(s)
  \/ \E s \in Slots : UploadStore(s)
  \/ \E s \in Slots : RetryCheck(s)
  \/ \E s \in Slots : RetryWrite(s)

ApiSpec == InitApi /\ [][ApiNext]_vars

\* the requests that address a document by its id, with the workers
\* stopped: tenant T has one document, in any stored state and with any
\* state of the two stores, and tenants T and U read its status, retry it
\* and delete it
InitDoc ==
  /\ \E rec \in StoredDocs : docs = [d \in DocIds |-> IF d = 1 THEN rec ELSE NoDoc]
  /\ objects \in {{}, {1}}
  /\ \E n \in 0..MaxLive : chunks = [d \in DocIds |-> IF d = 1 THEN n ELSE 0]
  /\ jobs = [j \in JobIds |-> FreeJob]
  /\ calls = [s \in Slots |-> IdleCall]
  /\ nextDoc = 1
  /\ event = NoEvent
  /\ service = ServiceUp
  /\ scope = [docs |-> 1, slots |-> 1, jobs |-> MaxJobs, tenants |-> Tenants,
              files |-> {}, trace |-> TRUE]

DocNext ==
  \/ \E s \in Slots : StatusRead(s)
  \/ \E s \in Slots : StatusWrite(s)
  \/ \E s \in Slots : ListRead(s)
  \/ \E s \in Slots : ListWrite(s)
  \/ \E s \in Slots : RetryCheck(s)
  \/ \E s \in Slots : RetryWrite(s)
  \/ \E s \in Slots : DeleteCheck(s)
  \/ \E s \in Slots : DeleteVector(s)
  \/ \E s \in Slots : DeleteObject(s)
  \/ \E s \in Slots : DeleteRecord(s)
  \/ \E s \in Slots : IngestionStatus(s)

DocSpec == InitDoc /\ [][DocNext]_vars

\* the list read of a page alone: tenant T has PageSize documents, each
\* uploaded, processed or failed, with or without a stored count and with
\* or without chunks, and reads the page
PageDocs ==
  { [tenant |-> "T", name |-> "report.pdf", file |-> [ctype |-> "text", bytes |-> 1],
     status |-> st, chunk_count |-> cc, err |-> IF st = ERROR THEN << MsgNoRetry >> ELSE NoMsg] :
      st \in {UPLOADED, PROCESSED, ERROR}, cc \in {NullCount, 1} }

InitPage ==
  /\ docs \in [DocIds -> PageDocs \cup {NoDoc}]
  /\ \A d \in DocIds : Present(d) <=> d <= PageSize
  /\ objects = 1..PageSize
  /\ chunks \in [DocIds -> {0, 1}]
  /\ \A d \in DocIds : d > PageSize => chunks[d] = 0
  /\ jobs = [j \in JobIds |-> FreeJob]
  /\ calls = [s \in Slots |-> IdleCall]
  /\ nextDoc = PageSize
  /\ event = NoEvent
  /\ service = ServiceUp
  /\ scope = [docs |-> PageSize, slots |-> 1, jobs |-> 0, tenants |-> {"T"},
              files |-> {}, trace |-> TRUE]

PageNext ==
  \/ \E s \in Slots : PageRead(s)
  \/ \E s \in Slots : PageWrite(s)

PageSpec == InitPage /\ [][PageNext]_vars

\* the writes of error_message alone, with the texts of the exceptions
\* spelled out: one document, in any stored state whose message goes with
\* its status
InitMsg ==
  /\ \E rec \in StoredDocs :
        /\ rec.err # NoMsg <=> rec.status = ERROR
        /\ docs = [d \in DocIds |-> IF d = 1 THEN rec ELSE NoDoc]
  /\ objects = {1}
  /\ chunks = [d \in DocIds |-> 0]
  /\ jobs = [j \in JobIds |-> FreeJob]
  /\ calls = [s \in Slots |-> IdleCall]
  /\ nextDoc = 1
  /\ event = NoEvent
  /\ service = ServiceUp
  /\ scope = [docs |-> 1, slots |-> 1, jobs |-> MaxJobs, tenants |-> {"T"},
              files |-> {}, trace |-> FALSE]

MsgNext ==
  \/ MsgUploadFails
  \/ MsgTaskStarts
  \/ MsgTaskFails
  \/ MsgRepair
  \/ \E s \in Slots : RetryCheck(s)
  \/ \E s \in Slots : RetryWrite(s)

MsgSpec == InitMsg /\ [][MsgNext]_vars

\* the building of the chunk metadata alone: one uploaded document and
\* every original_metadata over CallerKeys
InitMeta ==
  /\ \E rec \in StoredDocs :
        /\ rec.status = UPLOADED /\ rec.err = NoMsg /\ rec.chunk_count = NullCount
        /\ docs = [d \in DocIds |-> IF d = 1 THEN rec ELSE NoDoc]
  /\ objects = {1}
  /\ chunks = [d \in DocIds |-> 0]
  /\ jobs = [j \in JobIds |-> FreeJob]
  /\ calls = [s \in Slots |-> IdleCall]
  /\ nextDoc = 1
  /\ event = NoEvent
  /\ service = ServiceUp
  /\ scope = [docs |-> 1, slots |-> 0, jobs |-> 0, tenants |-> {"T"},
              files |-> {}, trace |-> TRUE]

MetaNext == MetaDeliver \/ MetaBuild

MetaSpec == InitMeta /\ [][MetaNext]_vars

\* one stored document, uploaded with its message queued or failed with
\* none, two requests in flight at a time and the workers: the reads and
\* the Retry calls race each other and the attempts
InitRace ==
  /\ \E rec \in StoredDocs :
        /\ \/ rec.status = UPLOADED /\ rec.err = NoMsg
           \/ rec.status = ERROR /\ rec.err # NoMsg
        /\ rec.chunk_count = NullCount
        /\ docs = [d \in DocIds |-> IF d = 1 THEN rec ELSE NoDoc]
        /\ jobs = [j \in JobIds |-> IF j = 1 /\ rec.status = UPLOADED
                                    THEN NewJob(1) ELSE FreeJob]
  /\ objects = {1}
  /\ chunks = [d \in DocIds |-> 0]
  /\ calls = [s \in Slots |-> IdleCall]
  /\ nextDoc = 1
  /\ event = NoEvent
  /\ service = ServiceUp
  /\ scope = [docs |-> 1, slots |-> 2, jobs |-> 2, tenants |-> {"T"},
              files |-> {}, trace |-> TRUE]

RaceNext ==
  \/ \E s \in Slots : StatusRead(s)
  \/ \E s \in Slots : StatusWrite(s)
  \/ \E s \in Slots : ListRead(s)
  \/ \E s \in Slots : ListWrite(s)
  \/ \E s \in Slots : RetryCheck(s)
  \/ \E s \in Slots : RetryWrite(s)
  \/ \E j \in JobIds : Deliver(j)
  \/ \E j \in JobIds : Process(j)
  \/ \E j \in JobIds : Finish(j)

RaceSpec == InitRace /\ [][RaceNext]_vars

\* one uploaded document whose message is queued, the workers, and one
\* Delete request at a time
InitPurge ==
  /\ \E rec \in StoredDocs :
        /\ rec.status = UPLOADED /\ rec.err = NoMsg /\ rec.chunk_count = NullCount
        /\ docs = [d \in DocIds |-> IF d = 1 THEN rec ELSE NoDoc]
  /\ jobs = [j \in JobIds |-> IF j = 1 THEN NewJob(1) ELSE FreeJob]
  /\ objects = {1}
  /\ chunks = [d \in DocIds |-> 0]
  /\ calls = [s \in Slots |-> IdleCall]
  /\ nextDoc = 1
  /\ event = NoEvent
  /\ service = ServiceUp
  /\ scope = [docs |-> 1, slots |-> 1, jobs |-> 1, tenants |-> {"T"},
              files |-> {}, trace |-> TRUE]

PurgeNext ==
  \/ \E s \in Slots : DeleteCheck(s)
  \/ \E s \in Slots : DeleteVector(s)
  \/ \E s \in Slots : DeleteObject(s)
  \/ \E s \in Slots : DeleteRecord(s)
  \/ \E j \in JobIds : Deliver(j)
  \/ \E j \in JobIds : Process(j)
  \/ \E j \in JobIds : Finish(j)

PurgeSpec == InitPurge /\ [][PurgeNext]_vars

\* the API process alone: started against a database that answered or not,
\* health checks arriving in every serving slot, and a database that fails
\* MaxOutages times at most and comes back every time
InitHealth ==
  /\ docs = [d \in DocIds |-> NoDoc]
  /\ objects = {}
  /\ chunks = [d \in DocIds |-> 0]
  /\ jobs = [j \in JobIds |-> FreeJob]
  /\ calls = [s \in Slots |-> IdleCall]
  /\ nextDoc = 0
  /\ event = Event("-", 0, 0, "-", "-", NoEvidence, NoResult)
  /\ \E db \in {"up", "down", "slow"} :
       service = [ready |-> startup_event(db), db |-> db, outages |-> 0]
  /\ scope = [docs |-> 0, slots |-> MaxSlots, jobs |-> 0, tenants |-> {"T"},
              files |-> {}, trace |-> TRUE]

HealthNext ==
  \/ \E s \in Slots : HealthCheck(s)
  \/ \E s \in Slots : HealthPing(s)
  \/ DbFails
  \/ DbRecovers

HealthSpec ==
  /\ InitHealth /\ [][HealthNext]_vars
  /\ \A s \in Slots : WF_vars(HealthCheck(s)) /\ WF_vars(HealthPing(s))
  /\ WF_vars(DbRecovers)

\* ================================================================ properties
\* the request or the job attempt a step belongs to
RetryStep == \E s \in Slots : calls[s].op = "retry" /\ calls'[s].op = "idle"

ReconcileStep ==
  \E s \in Slots : calls[s].op \in {"status", "list"} /\ calls'[s].op = "idle"

JobStepOn(d) ==
  \E j \in JobIds : /\ jobs[j].doc = d
                    /\ jobs[j].state \in {"queued", "running"}
                    /\ jobs'[j] # jobs[j]

LegalEdges == { << PENDING, UPLOADED >>, << UPLOADED, PROCESSING >>,
                << PROCESSING, PROCESSED >>, << PROCESSING, ERROR >> }

\* the edges that the failure handling and the rule table of the reconciler
\* prescribe besides: a failure before processing began, and the
\* reconciler's promotion of an UPLOADED document whose chunks exist
PrescribedEdge(a, b) ==
  \/ a \in {PENDING, UPLOADED} /\ b = ERROR
  \/ a = UPLOADED /\ b = PROCESSED /\ ReconcileStep

LegalChange(d) ==
  LET a == docs[d].status
      b == docs'[d].status
  IN  \/ << a, b >> \in LegalEdges
      \/ a = ERROR /\ b = PROCESSING /\ RetryStep
      \/ a = PROCESSED /\ b = ERROR /\ ReconcileStep
      \/ PrescribedEdge(a, b)

\* C1: every change of a document's stored status follows a legal edge:
\* PENDING->UPLOADED, UPLOADED->PROCESSING, PROCESSING->PROCESSED,
\* PROCESSING->ERROR, ERROR->PROCESSING only by Retry, PROCESSED->ERROR only
\* by reconciliation (admitting also the edges to ERROR of a failure before
\* processing began and the reconciler's UPLOADED->PROCESSED); no other
\* change is ever written.
C1_LegalEdges ==
  [][\A d \in DocIds :
       Present(d) /\ docs'[d].status # docs[d].status => LegalChange(d)]_vars

\* C2: once the stored status is PROCESSED, no step of a job attempt for
\* that document changes it to PROCESSING or ERROR.
C2_NoStaleOverwrite ==
  [][\A d \in DocIds :
       docs[d].status = PROCESSED /\ docs'[d].status \in {PROCESSING, ERROR}
         => ~ JobStepOn(d)]_vars

\* C3: for every (tenant, file name) at most one document has a stored
\* status other than ERROR.
C3_OneLiveDocumentPerName ==
  \A d1 \in DocIds, d2 \in DocIds :
    ( /\ d1 # d2
      /\ Present(d1) /\ Present(d2)
      /\ docs[d1].tenant = docs[d2].tenant
      /\ docs[d1].name = docs[d2].name )
      => (docs[d1].status = ERROR \/ docs[d2].status = ERROR)

TerminalMessages == { MsgNotFound, MsgEmpty, MsgNoRetry }

\* C5 as stated: an attempt that fails with a non-retryable error leaves
\* the document in ERROR with a terminal message and the job consumed.
C5_NonRetryableLeavesError ==
  (event.act = "Fail" /\ event.res \in NonRetryableKinds /\ Present(event.doc))
    => /\ docs[event.doc].status = ERROR
       /\ \E m \in TerminalMessages : docs[event.doc].err = << m >>
       /\ jobs[event.job].state = "done"

\* C5, amended: an attempt that fails with a non-retryable error leaves the
\* document in ERROR with the terminal message of its handler and the job
\* consumed whenever that handler's status write is applied; when the write
\* of the logical clause fails the job is consumed all the same; when the
\* write of an early return fails the generic clause takes over and, if its
\* write is applied, leaves ERROR with the 'retry pending' message.
C5_NonRetryableConsumed ==
  (event.act = "Fail" /\ event.res \in NonRetryableKinds /\ Present(event.doc))
    => /\ event.written \in {"yes", "no"} => jobs[event.job].state = "done"
       /\ event.written = "yes"
            => /\ docs[event.doc].status = ERROR
               /\ docs[event.doc].err = << ErrorMessage(event.res) >>
               /\ ErrorMessage(event.res) \in TerminalMessages
       /\ event.written = "fallback"
            => /\ docs[event.doc].status = ERROR
               /\ docs[event.doc].err = << MsgRetryPending >>

C5_Witness ==
  /\ event.act = "Fail" /\ event.res = "Unsupported" /\ event.written = "yes"
  /\ docs[event.doc].err = << MsgNoRetry >>
  /\ jobs[event.job].state = "done"

\* C6: an attempt that fails with a retryable error is marked ERROR with the
\* 'retrying' message and the job is dispatched again, each delay greater
\* than the one before, until max_retries is reached; only then is the job
\* consumed.
C6_RetryableRedispatched ==
  (event.act = "Fail" /\ event.res \in RetryableKinds /\ Present(event.doc))
    => /\ event.written = "yes"
            => /\ docs[event.doc].status = ERROR
               /\ docs[event.doc].err = << MsgRetryPending >>
       /\ \/ /\ jobs[event.job].state = "queued"
             /\ jobs[event.job].retries <= max_retries
             /\ jobs[event.job].retries > 1
                  => Backoff(jobs[event.job].retries)
                       > Backoff(jobs[event.job].retries - 1)
          \/ /\ jobs[event.job].state = "done"
             /\ jobs[event.job].retries = max_retries

\* C7: a job is acknowledged only by the step that gives its attempt an
\* outcome; a step that takes a running job without an outcome (the worker
\* is lost) leaves it queued for the same document; and a queued job is
\* eventually delivered.
C7_AckAfterOutcome ==
  /\ [][\A j \in JobIds :
          (jobs[j].state = "running" /\ jobs'[j].state # "running")
            => \/ /\ event'.act \in {"Fail", "Finish"} /\ event'.job = j
                  /\ jobs'[j].state \in {"done", "queued"}
               \/ /\ event'.act = "Crash" /\ event'.job = j
                  /\ jobs'[j].state = "queued"
                  /\ jobs'[j].doc = jobs[j].doc]_vars
  /\ \A j \in JobIds : (jobs[j].state = "queued") ~> (jobs[j].state # "queued")

C7_Witness ==
  /\ event.act = "Crash"
  /\ jobs[event.job].state = "queued"
  /\ jobs[event.job].doc = event.doc

\* C8: when an attempt exceeds its wall-clock limit the attempt is
\* abandoned, the document is marked ERROR and the job is not retried.
C8_TimeoutAbandons ==
  [][\A j \in JobIds :
       (~ jobs[j].overtime /\ jobs'[j].overtime)
         => /\ jobs'[j].state = "done"
            /\ docs'[jobs[j].doc].status = ERROR]_vars

\* C9 as stated: every attempt that ends in a failure leaves the stored
\* status ERROR with a non-empty message, and no attempt ends with the job
\* done while the stored status is PROCESSING.
C9_FailureLeavesError ==
  (event.act \in {"Fail", "Finish"} /\ Present(event.doc))
    => /\ event.act = "Fail"
            => /\ docs[event.doc].status = ERROR
               /\ docs[event.doc].err # NoMsg
       /\ ~ (jobs[event.job].state = "done" /\ docs[event.doc].status = PROCESSING)

\* C9, amended: every attempt that ends in a failure leaves the stored
\* status ERROR with a non-empty message whenever the status write of its
\* handler is applied; an attempt ends with the job done while the stored
\* status is PROCESSING only when that write failed.
C9_FailureLeavesErrorIfWritten ==
  (event.act \in {"Fail", "Finish"} /\ Present(event.doc))
    => /\ (event.act = "Fail" /\ event.written \in {"yes", "fallback"})
            => /\ docs[event.doc].status = ERROR
               /\ docs[event.doc].err # NoMsg
       /\ (jobs[event.job].state = "done" /\ docs[event.doc].status = PROCESSING)
            => (event.act = "Fail" /\ event.written \in {"no", "fallback-no"})

C9_Witness ==
  /\ event.act = "Fail" /\ event.res = "IOError" /\ event.written = "yes"
  /\ docs[event.doc].status = ERROR
  /\ jobs[event.job].state = "done"

\* C10: when an attempt succeeds the stored status is PROCESSED, the stored
\* chunk_count is the number the write stage reported as written, and
\* error_message is null.
C10_SuccessStoresCount ==
  (event.act = "Finish" /\ Present(event.doc))
    => /\ docs[event.doc].status = PROCESSED
       /\ docs[event.doc].err = NoMsg
       /\ event.result.writer # NullCount
            => docs[event.doc].chunk_count = event.result.writer

C10_Witness ==
  /\ event.act = "Finish"
  /\ event.result.writer > 0
  /\ docs[event.doc].status = PROCESSED
  /\ docs[event.doc].chunk_count = event.result.writer

\* C11: when the pipeline run finishes and the write stage's output does not
\* give the number of chunks written, the attempt does not store PROCESSED:
\* no count inferred from the splitter or defaulted to 0 is stored.
C11_UnknownCountIsError ==
  (event.act = "Finish" /\ Present(event.doc)
     /\ event.result.writer = NullCount)
    => docs[event.doc].status # PROCESSED

\* ------------------------------------------------- the reconciliation rules
\* the last step ended a status read (single or list) of a document: the
\* read had nothing to write, or its write was applied
ReadEnded ==
  /\ event.act \in {"StatusRead", "StatusWrite", "ListRead", "ListWrite"}
  /\ event.res = "-"
  /\ event.written \in {"none", "yes"}

\* the record the read fetched, and the record it leaves
Fetched == event.was
Left == docs[event.doc]

\* C12 as stated: reconciling a document whose stored status is UPLOADED and
\* whose live vector count is n > 0 leaves status PROCESSED, chunk_count n
\* and error_message null.
C12_UploadedWithChunks ==
  (ReadEnded /\ Fetched.status = UPLOADED /\ event.ev.count > 0)
    => /\ Left.status = PROCESSED
       /\ Left.chunk_count = event.ev.count
       /\ Left.err = NoMsg

\* C12, amended: reconciling a document whose stored status is UPLOADED,
\* whose object is found in the Object Store and whose live vector count is
\* n > 0 leaves status PROCESSED, chunk_count n and error_message null.
C12_UploadedWithChunksAndObject ==
  (ReadEnded /\ Fetched.status = UPLOADED /\ event.ev.count > 0
     /\ event.ev.exists = "yes")
    => /\ event.written = "yes"
       /\ Left.status = PROCESSED
       /\ Left.chunk_count = event.ev.count
       /\ Left.err = NoMsg

C12_Witness ==
  /\ event.act = "StatusWrite" /\ event.written = "yes"
  /\ Fetched.status = UPLOADED /\ Fetched.chunk_count = NullCount
  /\ event.ev.exists = "yes" /\ event.ev.count > 0
  /\ Left.status = PROCESSED /\ Left.chunk_count = event.ev.count

\* C13 as stated: reconciling a document whose stored status is PROCESSED
\* and whose live vector count is exactly 0 leaves status ERROR,
\* chunk_count 0 and a non-empty error_message.
C13_ProcessedWithoutChunks ==
  (ReadEnded /\ Fetched.status = PROCESSED /\ event.ev.count = 0)
    => /\ Left.status = ERROR
       /\ Left.chunk_count = 0
       /\ Left.err # NoMsg

\* C13, amended: reconciling a document whose stored status is PROCESSED,
\* whose object is found in the Object Store and whose live vector count is
\* exactly 0 leaves status ERROR, chunk_count 0 and an error_message that
\* ends with the data-missing text.
C13_ProcessedWithoutChunksWithObject ==
  (ReadEnded /\ Fetched.status = PROCESSED /\ event.ev.count = 0
     /\ event.ev.exists = "yes")
    => /\ event.written = "yes"
       /\ Left.status = ERROR
       /\ Left.chunk_count = 0
       /\ Left.err = Append(Fetched.err, MsgDataMissing)

C13_Witness ==
  /\ event.act = "StatusWrite" /\ event.written = "yes"
  /\ Fetched.status = PROCESSED /\ Fetched.chunk_count > 0
  /\ event.ev.exists = "yes" /\ event.ev.count = 0
  /\ Left.status = ERROR /\ Left.chunk_count = 0

\* C14: reconciling a document whose stored status is UPLOADED, PROCESSING
\* or PROCESSED and whose object is not in the Object Store leaves status
\* ERROR with the file-missing message; for a document in PENDING or ERROR
\* a missing object changes nothing: the record is left as it was, or, when
\* the count check failed on a PENDING document, as the count rule alone
\* leaves it.
C14_MissingObject ==
  (ReadEnded /\ event.ev.exists = "no")
    => /\ Fetched.status \in {UPLOADED, PROCESSING, PROCESSED}
            => /\ event.written = "yes"
               /\ Left.status = ERROR
               /\ Left.err = << MsgFileMissing >>
       /\ Fetched.status \in {PENDING, ERROR}
            => IF Fetched.status = PENDING /\ event.ev.count = CountError
               THEN Left = [Fetched EXCEPT !.status = ERROR,
                                           !.err = Append(@, MsgCountError)]
               ELSE event.written = "none" /\ Left = Fetched

C14_Witness ==
  /\ event.act = "StatusWrite" /\ event.written = "yes"
  /\ Fetched.status = PROCESSING
  /\ event.ev.exists = "no"
  /\ Left.status = ERROR /\ Left.err = << MsgFileMissing >>

\* C15 as stated: when the live chunk-count check fails, a document not
\* already in ERROR is moved to ERROR with the failed-to-verify message and
\* its chunk_count is left as it was; a document already in ERROR is not
\* written.
C15_CountCheckFailed ==
  (ReadEnded /\ event.ev.count = CountError)
    => IF Fetched.status # ERROR
       THEN /\ event.written = "yes"
            /\ Left.status = ERROR
            /\ Left.err = Append(Fetched.err, MsgCountError)
            /\ Left.chunk_count = Fetched.chunk_count
       ELSE event.written = "none" /\ Left = Fetched

\* C15, amended: when the live chunk-count check fails, a document not
\* already in ERROR is moved to ERROR and its chunk_count is left as it
\* was; the message is the stored one followed by the failed-to-verify
\* text, unless the object check of the same read has already moved the
\* document to ERROR, and then it is that check's message alone. A
\* document already in ERROR is not written. The outcome is never the one
\* of a live count of zero.
C15_CountCheckFailedAfterObjectRule ==
  (ReadEnded /\ event.ev.count = CountError)
    => IF Fetched.status # ERROR
       THEN /\ event.written = "yes"
            /\ Left.status = ERROR
            /\ Left.chunk_count = Fetched.chunk_count
            /\ Left.err =
                 IF event.ev.exists = "no" /\ Fetched.status # PENDING
                 THEN << MsgFileMissing >>
                 ELSE IF event.ev.exists = "error"
                 THEN Append(Fetched.err, MsgMinioCheck)
                 ELSE Append(Fetched.err, MsgCountError)
            /\ MsgDataMissing \notin { Left.err[i] : i \in DOMAIN Left.err }
       ELSE event.written = "none" /\ Left = Fetched

C15_Witness ==
  /\ event.act = "StatusWrite" /\ event.written = "yes"
  /\ Fetched.status = PROCESSED /\ Fetched.chunk_count > 0
  /\ event.ev.exists = "yes" /\ event.ev.count = CountError
  /\ Left.status = ERROR /\ Left.chunk_count = Fetched.chunk_count
  /\ Left.err = Append(Fetched.err, MsgCountError)

\* C16: reconciling a document whose stored status is PROCESSED, whose
\* object exists and whose live vector count n > 0 differs from the stored
\* chunk_count (or the stored chunk_count is null) sets the stored
\* chunk_count to n and leaves everything else, the status PROCESSED
\* included, as it was.
C16_CountDrift ==
  (ReadEnded /\ Fetched.status = PROCESSED /\ event.ev.exists = "yes"
     /\ event.ev.count > 0 /\ Fetched.chunk_count # event.ev.count)
    => /\ event.written = "yes"
       /\ Left = [Fetched EXCEPT !.chunk_count = event.ev.count]

C16_Witness ==
  /\ event.act = "ListWrite" /\ event.written = "yes"
  /\ Fetched.status = PROCESSED /\ Fetched.chunk_count = NullCount
  /\ event.ev.exists = "yes" /\ event.ev.count > 0
  /\ Left.status = PROCESSED /\ Left.chunk_count = event.ev.count

\* C17: the object-existence rule takes precedence over the chunk-count
\* rules: for a document in UPLOADED or PROCESSED whose object is missing,
\* reconciliation ends in ERROR with the file-missing message alone for
\* every live chunk count and for a failed count check; the count rules
\* neither promote the document to PROCESSED nor touch its chunk_count.
C17_ObjectRuleFirst ==
  (ReadEnded /\ Fetched.status \in {UPLOADED, PROCESSED}
     /\ event.ev.exists = "no")
    => /\ event.written = "yes"
       /\ Left = [Fetched EXCEPT !.status = ERROR,
                                 !.err = << MsgFileMissing >>]

C17_Witness ==
  /\ event.act = "StatusWrite" /\ event.written = "yes"
  /\ Fetched.status = UPLOADED
  /\ event.ev.exists = "no" /\ event.ev.count > 0
  /\ Left.status = ERROR /\ Left.err = << MsgFileMissing >>

\* a rule of the reconciliation table fires for the fetched record rec and
\* the evidence ev
RuleFires(rec, ev) ==
  \/ ev.exists = "no" /\ rec.status \in {UPLOADED, PROCESSING, PROCESSED}
  \/ ev.exists = "error" /\ rec.status # ERROR
  \/ ev.count = CountError /\ rec.status # ERROR
  \/ ev.count > 0 /\ rec.status = UPLOADED
  \/ ev.count = 0 /\ rec.status = PROCESSED
  \/ ev.count > 0 /\ rec.status = PROCESSED /\ rec.chunk_count # ev.count

LiveDocument(t, n) ==
  \E d \in DocIds : /\ Present(d)
                    /\ docs[d].tenant = t /\ docs[d].name = n
                    /\ docs[d].status # ERROR

C20_RetryConflict ==
  [][ (event'.act = "RetryCheck"
         /\ get_document_by_id(event'.doc, event'.req.tenant)
         /\ docs[event'.doc].status # ERROR)
        => /\ event'.res = "Conflict"
           /\ UNCHANGED << docs, objects, chunks, jobs, calls, nextDoc >>
    ]_vars

C20_Witness ==
  /\ event.act = "RetryCheck" /\ event.res = "Conflict"
  /\ event.req.tenant = "T"
  /\ docs[event.doc].status = PROCESSED
  /\ \A j \in JobIds : jobs[j].state = "free"

\* C21: a retry of a document in ERROR that is accepted sets the status to
\* PROCESSING, clears error_message, queues exactly one job, for that
\* document, whose message gives the task the object path stored at upload,
\* and does not write the Object Store.
C21_RetryRequeues ==
  [][ (event'.act = "RetryWrite" /\ event'.res = "ok")
        => /\ docs'[event'.doc].status = PROCESSING
           /\ docs'[event'.doc].err = NoMsg
           /\ objects' = objects
           /\ Cardinality({ j \in JobIds : jobs'[j] # jobs[j] }) = 1
           /\ jobs'[event'.job] = NewJob(event'.doc)
           /\ {"minio_object_name"} \subseteq event'.args \cap task_parameters
    ]_vars

\* the part of C21 that does not depend on the arguments of the message
RetryRequeuesSomeMessage ==
  [][ (event'.act = "RetryWrite" /\ event'.res = "ok")
        => /\ docs[event'.doc].status = ERROR
           /\ docs'[event'.doc].status = PROCESSING
           /\ docs'[event'.doc].err = NoMsg
           /\ objects' = objects
           /\ Cardinality({ j \in JobIds : jobs'[j] # jobs[j] }) = 1
           /\ jobs'[event'.job] = NewJob(event'.doc)
    ]_vars

\* the documents that have a metadata record
Records == { d \in DocIds : docs[d].status # ABSENT }

\* the store step of an upload: it creates no record; when the call
\* succeeds it has stored the object of its document, which was not there,
\* and queued one job for it, and when the call fails it queues none
UploadStoreEffect ==
  event'.act = "UploadStore"
    => /\ Records' = Records /\ nextDoc' = nextDoc
       /\ IF event'.res = "ok"
          THEN /\ event'.doc \notin objects
               /\ objects' = objects \cup {event'.doc}
               /\ Cardinality({ j \in JobIds : jobs'[j] # jobs[j] }) = 1
               /\ jobs'[event'.job] = NewJob(event'.doc)
          ELSE jobs' = jobs

\* C22 as stated: every upload that passes validation and the duplicate
\* check creates exactly one metadata record; a call that succeeds has also
\* stored exactly one object and queued exactly one job, and a call that
\* fails has queued no job.
C22_OneRecordPerUpload ==
  [][ /\ event'.act = "UploadCreate"
           => /\ Records' = Records \cup {event'.doc}
              /\ event'.doc \notin Records
              /\ objects' = objects /\ jobs' = jobs
      /\ UploadStoreEffect
    ]_vars

\* C22, amended: every upload that passes validation and the duplicate
\* check creates exactly one metadata record, unless the insert itself
\* fails: then the call fails with Unavailable and nothing is created,
\* stored or queued. A call that succeeds has also stored exactly one
\* object and queued exactly one job; a call that fails has queued no job.
C22_OneRecordPerUploadUnlessInsertFails ==
  [][ /\ event'.act = "UploadCreate"
           => IF event'.res = "ok"
              THEN /\ Records' = Records \cup {event'.doc}
                   /\ event'.doc \notin Records
                   /\ \A d \in Records : docs'[d] = docs[d]
                   /\ objects' = objects /\ jobs' = jobs
              ELSE /\ event'.res = "Unavailable"
                   /\ \E s \in Slots : calls[s].op = "upload" /\ calls'[s].op = "idle"
                   /\ UNCHANGED << docs, objects, jobs, nextDoc >>
      /\ UploadStoreEffect
    ]_vars

C22_Witness ==
  /\ event.act = "UploadStore" /\ event.res = "ok"
  /\ docs[event.doc].status = UPLOADED
  /\ event.doc \in objects
  /\ jobs[event.job] = NewJob(event.doc)
  /\ Cardinality({ j \in JobIds : jobs[j].doc = event.doc }) = 1

\* C23 as stated: an upload that fails after its record was created leaves
\* the document in ERROR with a non-empty message: a failed put gives
\* Unavailable and leaves no job queued, a failed enqueue gives Internal,
\* and the document is never left in PENDING or UPLOADED.
C23_FailedUploadLeavesError ==
  (event.act = "UploadStore" /\ event.res # "ok")
    => /\ docs[event.doc].status = ERROR
       /\ docs[event.doc].err # NoMsg
       /\ event.res \in {"Unavailable", "Internal"}
       /\ \A j \in JobIds : jobs[j].doc # event.doc

\* C23, amended: an upload that fails after its record was created answers
\* Unavailable (failed put) or Internal (failed status write or enqueue)
\* and leaves no job queued for the document; the document is left in ERROR
\* with the message of the failure whenever the write of that status is
\* accepted by the Metadata Store, and as it was (PENDING, or UPLOADED
\* after a failed enqueue) when that write fails too.
C23_FailedUploadLeavesErrorIfWritten ==
  (event.act = "UploadStore" /\ event.res # "ok")
    => /\ event.res \in {"Unavailable", "Internal"}
       /\ \A j \in JobIds : jobs[j].doc # event.doc
       /\ event.written = "yes"
            => /\ docs[event.doc].status = ERROR
               /\ docs[event.doc].chunk_count = NullCount
               /\ event.res = "Unavailable"
                    => /\ docs[event.doc].err = << MsgMinioUpload >>
                       /\ event.doc \notin objects
               /\ event.res = "Internal"
                    => docs[event.doc].err \in {<< MsgUnexpectedUpload >>,
                                                << MsgQueueFailed >>}
       /\ event.written = "no"
            => docs[event.doc].status \in {PENDING, UPLOADED}

C23_Witness ==
  /\ event.act = "UploadStore" /\ event.res = "Internal"
  /\ event.written = "yes"
  /\ docs[event.doc].status = ERROR
  /\ docs[event.doc].err = << MsgQueueFailed >>
  /\ event.doc \in objects

\* an upload request the preconditions refuse: a content type that is not
\* supported, metadata that is not a JSON object, or no bytes
RefusedRequest(q) ==
  \/ q.file.ctype \notin SUPPORTED_CONTENT_TYPES
  \/ q.meta \in {"array", "garbage"}
  \/ q.file.bytes = 0

\* C24: an upload with an unsupported content type is answered with
\* UnsupportedMediaType, and an upload with metadata that is not a JSON
\* object or with empty bytes is answered with InvalidArgument; the step
\* that answers creates no record, object or job and leaves no request in
\* flight that would.
C24_RefusedUploadCreatesNothing ==
  [][ (event'.act = "UploadCheck" /\ RefusedRequest(event'.req))
        => /\ event'.res =
                IF event'.req.file.ctype \notin SUPPORTED_CONTENT_TYPES
                THEN "UnsupportedMediaType" ELSE "InvalidArgument"
           /\ UNCHANGED << docs, objects, chunks, jobs, calls, nextDoc >>
    ]_vars

\* the document of the delete request in flight in slot s
Deleting(s) == calls[s].op = "delete"

\* C25: a Delete of an owned document attempts the Vector Store delete,
\* then the Object Store delete, then the Metadata Store delete: each
\* attempt touches its own store only and, failed or not, hands over to the
\* next; when the Metadata Store delete succeeds the request succeeds and
\* the record is gone.
C25_DeleteOrder ==
  [][ \A s \in Slots : Deleting(s) =>
        /\ calls[s].pc = "vector"
             => /\ event'.act = "DeleteVector"
                /\ calls'[s] = [calls[s] EXCEPT !.pc = "object",
                                                  !.log = calls'[s].log]
                /\ UNCHANGED << docs, objects >>
        /\ calls[s].pc = "object"
             => /\ event'.act = "DeleteObject"
                /\ calls'[s] = [calls[s] EXCEPT !.pc = "record",
                                                  !.log = calls'[s].log]
                /\ UNCHANGED << docs, chunks >>
        /\ calls[s].pc = "record"
             => /\ event'.act = "DeleteRecord"
                /\ calls'[s] = IdleCall
                /\ UNCHANGED << objects, chunks >>
                /\ event'.res \in {"ok", "Internal"}
                /\ event'.res = "ok" => docs'[calls[s].doc].status = ABSENT
                /\ event'.res = "ok" <=> event'.written = "yes"
    ]_vars

\* C25 witness: a Delete has succeeded and removed the record although its
\* Vector Store delete and its Object Store delete had both failed
C25_Witness ==
  /\ event.act = "DeleteRecord" /\ event.res = "ok"
  /\ ~ Present(event.doc)
  /\ event.doc \in objects
  /\ chunks[event.doc] > 0

\* C26: when the Metadata Store delete of a Delete fails, the request is
\* answered Internal, the record is left as it was, and a Delete of the
\* same document by its owner is accepted again.
C26_FailedDeleteKeepsRecord ==
  [][ (event'.act = "DeleteRecord" /\ event'.res = "Internal")
        => /\ docs' = docs
           /\ docs'[event'.doc].status # ABSENT
           /\ \E s \in Slots : Deleting(s) /\ calls[s].doc = event'.doc
                                /\ docs'[event'.doc].tenant = calls[s].tenant
           /\ \E s \in Slots : Idle(s)'
    ]_vars

\* C26 witness: the Metadata Store delete has failed after the two other
\* stores were emptied, and the record is still there
C26_Witness ==
  /\ event.act = "DeleteRecord" /\ event.res = "Internal"
  /\ Present(event.doc)
  /\ event.doc \notin objects
  /\ chunks[event.doc] = 0

\* the last step answered a request that names a document by id
ByIdRequests == {"StatusRead", "IngestionStatus", "RetryCheck", "DeleteCheck"}

\* the step answers a request of a tenant for a document of another tenant
ForeignRequest(acts) ==
  /\ event'.act \in acts
  /\ event'.doc # 0
  /\ docs[event'.doc].status # ABSENT
  /\ event'.req.tenant \in Tenants
  /\ docs[event'.doc].tenant # event'.req.tenant

\* the step leaves the four stores and the requests in flight as they were
Untouched == UNCHANGED << docs, objects, chunks, jobs, calls, nextDoc >>

\* every request in flight that has got past its ownership check works on
\* a document of its caller
OwnDocumentsOnly ==
  \A s \in Slots :
     calls[s].op \in {"status", "list", "retry", "delete"}
       => docs[calls[s].doc].tenant = calls[s].tenant

\* C27: a status read, Retry or Delete of tenant U for a document of
\* another tenant is answered NotFound and changes nothing, and no request
\* works on a document of another tenant than its caller.
C27_TenantIsolation ==
  [][ /\ ForeignRequest(ByIdRequests) => (event'.res = "NotFound" /\ Untouched)
      /\ OwnDocumentsOnly'
    ]_vars

\* the same for the three endpoints of ingest-service alone
TenantIsolationOfIngestService ==
  [][ /\ ForeignRequest(ByIdRequests \ {"IngestionStatus"})
           => (event'.res = "NotFound" /\ Untouched)
      /\ OwnDocumentsOnly'
    ]_vars

\* C28: in every reachable state the stored error_message of a document is
\* non-null exactly when its stored status is ERROR.
C28_MessageIffError ==
  \A d \in DocIds :
     Present(d) => (docs[d].err # NoMsg <=> docs[d].status = ERROR)

\* C28 witness: a Retry has found the document in ERROR and queued a second
\* message for it, and the document is now in PROCESSING or PROCESSED with
\* the message cleared
C28_Witness ==
  \E d \in DocIds :
     /\ Cardinality({ j \in JobIds : jobs[j].state # "free" /\ jobs[j].doc = d }) > 1
     /\ docs[d].status \in {PROCESSING, PROCESSED}
     /\ docs[d].err = NoMsg

\* C29: however often the pipeline has run for a document, the Vector Store
\* holds no more chunks of it than one run over its bytes writes.
C29_WriteIsIdempotent ==
  \A d \in DocIds :
     Present(d) => chunks[d] <= WriteChunks(0, docs[d].file.bytes)

\* the last step returned the response of a status read, single or list
ReadAnswered ==
  /\ event.act \in {"StatusRead", "StatusWrite", "ListRead", "ListWrite"}
  /\ event.res = "-"
  /\ event.written \in {"none", "yes", "no"}

\* the response agrees with the stored record
AnswerIsStored ==
  /\ event.answer.status = docs[event.doc].status
  /\ event.answer.chunk_count = docs[event.doc].chunk_count

\* C30: with no other writer, the status and chunk_count a status read
\* (single or list) returns are those the Metadata Store holds for the
\* document when the read returns.
C30_AnswerIsStored == ReadAnswered => AnswerIsStored

\* the same for the single read alone
SingleAnswerIsStored ==
  (ReadAnswered /\ event.act \in {"StatusRead", "StatusWrite"}) => AnswerIsStored

\* the same for the list read when its write, if it had one, was applied
ListAnswerIsStoredIfWritten ==
  (ReadAnswered /\ event.written # "no") => AnswerIsStored

\* C31: in a list read of a page every correction is attempted in turn:
\* whether the write of one document was applied or failed, the read goes
\* on to the next correction untouched, only the document of the step is
\* written, and after the last correction the read returns its response.
C31_WritesAreIndependent ==
  [][ \A s \in Slots : calls[s].op = "page" =>
        LET todo == calls[s].todo IN
        /\ event'.act = "PageWrite"
        /\ event'.doc = Head(todo).doc
        /\ event'.written \in {"yes", "no"}
        /\ \A d \in DocIds : d # Head(todo).doc => docs'[d] = docs[d]
        /\ Len(todo) > 1 => /\ calls'[s].op = "page"
                            /\ calls'[s].todo = Tail(todo)
        /\ Len(todo) = 1 => /\ calls'[s] = IdleCall
                            /\ event'.res = "ok"
    ]_vars

\* C31 witness: the read has returned after the write for the last document
\* of the page was applied although the write for an earlier one had failed
C31_Witness ==
  /\ event.act = "PageWrite" /\ event.res = "ok" /\ event.written = "yes"
  /\ event.args # {}
  /\ event.doc \notin event.args

\* the longest message a failed attempt writes: the fixed part and the text
\* of the exception cut at TextCut
LongestCutMessage == Len(TaskErrorText(MsgNoRetry, Text(TextCut + 1)))

\* C32: the stored error_message of a document is never longer than a fixed
\* bound, here the longest message the writers that cut their text produce.
C32_MessageIsBounded ==
  \A d \in DocIds : Len(docs[d].err) <= LongestCutMessage

\* the jobs that exist for document d: queued, running or waiting for a
\* retry
JobsOf(d) == { j \in JobIds : jobs[j].state # "free" /\ jobs[j].doc = d }

\* C33: within one Upload and the job it queues the writes come in the
\* order PENDING, UPLOADED, PROCESSING, then PROCESSED or ERROR: the record
\* is created in PENDING without a job; the upload writes UPLOADED only
\* with the object stored and queues the job only with UPLOADED written;
\* the job writes PROCESSING only when it is taken from the queue, and its
\* final write only after that; and no job exists for a document that is
\* still in PENDING.
C33_UploadOrder ==
  [][ /\ \A s \in Slots : calls[s].op = "upload" =>
            /\ calls[s].pc = "create" =>
                 \A d \in DocIds :
                    (docs[d].status = ABSENT /\ docs'[d].status # ABSENT)
                      => (docs'[d].status = PENDING /\ UNCHANGED << objects, jobs >>)
            /\ calls[s].pc = "store" =>
                 /\ (docs'[calls[s].doc].status = UPLOADED)
                      => calls[s].doc \in objects'
                 /\ \A j \in JobIds :
                      (jobs[j].state = "free" /\ jobs'[j].state # "free")
                        => /\ jobs'[j].doc = calls[s].doc
                           /\ jobs'[j].state = "queued"
                           /\ docs'[calls[s].doc].status = UPLOADED
                           /\ calls[s].doc \in objects'
      /\ \A j \in JobIds :
            /\ (jobs'[j].state = "running" /\ jobs[j].state # "running")
                 => /\ jobs[j].state = "queued"
                    /\ docs'[jobs[j].doc].status \in {PROCESSING, ABSENT}
            /\ (jobs[j].state # "free" /\ docs'[jobs[j].doc].status = PROCESSED
                  /\ docs[jobs[j].doc].status # PROCESSED /\ jobs'[j] # jobs[j])
                 => jobs[j].state = "running"
      /\ \A d \in DocIds : docs'[d].status = PENDING => JobsOf(d)' = {}
    ]_vars

\* C33 witness: the document of an upload has been processed by the job the
\* upload queued, and its object is stored
C33_Witness ==
  \E d \in DocIds :
     /\ docs[d].status = PROCESSED
     /\ docs[d].chunk_count > 0
     /\ d \in objects
     /\ event.act = "Finish" /\ event.doc = d

\* C34: for every stored record and every live evidence (object there,
\* missing or existence check failed; a count or count check failed) the
\* single read and the list read decide the same: whether to write, and the
\* same status, chunk_count and error_message.
C34_SameRuleTable ==
  \A d \in DocIds :
     Present(d) =>
        \A ev \in ListEvidence(d) : SingleOutcome(docs[d], ev) = ReconcileList(docs[d], ev)

\* the same for the evidence of an existence check that answered
SameRuleTableWhenCheckAnswers ==
  \A d \in DocIds :
     Present(d) =>
        \A ev \in Evidence(d) : SingleOutcome(docs[d], ev) = ReconcileList(docs[d], ev)

\* C35: the metadata built for the chunks of a job has the four tags of the
\* task with the task's values, and besides them exactly the caller's keys
\* that are in the allow-list, with the caller's values as text; a caller's
\* key outside the allow-list is dropped and a caller's key named like a
\* tag does not replace the task's value.
C35_ChunkMetadata ==
  event.act = "MetaBuild" =>
     LET om == event.args
         m == event.result
         tags == TaskTags(event.doc)
     IN  /\ DOMAIN m = DOMAIN tags \cup (DOMAIN om \cap MILVUS_METADATA_FIELDS)
         /\ \A k \in DOMAIN tags : m[k] = tags[k]
         /\ \A k \in DOMAIN m \ DOMAIN tags : m[k] = StrOrNone(om[k])

\* C35 witness: metadata was built from a message that carried an allowed
\* key with a number, a key outside the allow-list and an allowed key named
\* like a tag
C35_Witness ==
  /\ event.act = "MetaBuild"
  /\ {"author", "secret", "company_id"} \subseteq DOMAIN event.args
  /\ event.args["author"].type = "int"
  /\ event.args["company_id"].text # docs[event.doc].tenant

\* C36: no document stays in PROCESSING forever: with every queued message
\* delivered and every attempt carried on, a document whose stored status is
\* PROCESSING, written by an attempt or by a Retry, eventually has the
\* stored status PROCESSED or ERROR.
C36_ProcessingEnds ==
  \A d \in DocIds :
    (docs[d].status = PROCESSING) ~> (docs[d].status \in {PROCESSED, ERROR})

\* a document is left in PROCESSING with no message for it queued or held
\* by a worker and no request open: the state after a Retry whose enqueue
\* failed
ProcessingWithNoJob ==
  \E d \in DocIds :
    /\ docs[d].status = PROCESSING
    /\ \A j \in JobIds : jobs[j].doc = d => jobs[j].state \notin {"queued", "running"}
    /\ \A s \in Slots : calls[s] = IdleCall

\* C37: a reconciliation write never loses a newer status: when a status
\* read writes its correction, the stored status is still the one the read
\* fetched, so a status written in between by a job attempt or a Retry is
\* not replaced by a correction computed from the older one.
C37_CorrectionKeepsNewerStatus ==
  [][\A s \in Slots :
       (/\ calls[s].op \in {"status", "list"} /\ calls[s].pc = "write"
        /\ calls'[s].pc # "write"
        /\ docs'[calls[s].doc] # docs[calls[s].doc])
         => docs[calls[s].doc].status = calls[s].was.status]_vars

\* C39: two Retry calls for the same ERROR document that run at the same
\* time enqueue at most one job between them: when a Retry call enqueues
\* its job, no other Retry call for that document has passed the ERROR
\* check and still has its write and its enqueue to do, so the other call
\* fails with Conflict.
C39_OneRetryEnqueues ==
  [][\A s \in Slots :
       (/\ calls[s].op = "retry" /\ calls[s].pc = "write"
        /\ calls'[s].pc # "write"
        /\ jobs' # jobs)
         => ~ \E s2 \in Slots \ {s} :
                /\ calls[s2].op = "retry" /\ calls[s2].pc = "write"
                /\ calls[s2].doc = calls[s].doc]_vars

\* C38: when a Delete of a document ends with success and has noted no
\* failed store, the Vector Store holds no chunk and the Metadata Store no
\* record of the document, also when an attempt for the document was
\* queued or running during the Delete.
C38_DeleteLeavesNothing ==
  (event.act = "DeleteRecord" /\ event.res = "ok" /\ event.args = {})
    => /\ ~ Present(event.doc)
       /\ chunks[event.doc] = 0

\* C40: the health check recovers: after a health check has marked the
\* service not ready because its database ping failed or timed out, and
\* with the database answering again, a later health check pings the
\* database, marks the service ready and answers ok.
C40_HealthRecovers ==
  (event.act = "HealthPing" /\ event.res \in {"Timeout", "Unavailable"})
    ~> (event.act = "HealthPing" /\ event.res = "ok" /\ SERVICE_READY)

\* the service is marked not ready while the database answers, no health
\* check is in flight and the database will not fail again
NotReadyForGood ==
  /\ ~ SERVICE_READY /\ service.db = "up" /\ service.outages = MaxOutages
  /\ \A s \in Slots : calls[s] = IdleCall
  /\ event.act = "HealthCheck" /\ event.res = "Unavailable"
====
